---- MODULE Spec2Model ----
(***************************************************************************)
(* A model of reginleif's disk cache (reginleif-utils/src/save_path.rs,    *)
(* trait Cache) and of its expiring container                              *)
(* (reginleif/src/utils/expiring_data.rs, ExpiringData).                   *)
(*                                                                         *)
(* Files hold text.  A byte is a one-character string; "0" stands for the  *)
(* NUL byte a sparse write leaves in a hole.  The JSON document of a value *)
(* v is <<"{", v, "}">>; every other byte sequence is rejected by          *)
(* serde_json::from_str.  All bytes of the model are ASCII, so             *)
(* read_to_string never fails on the encoding.                             *)
(***************************************************************************)
EXTENDS Integers, Sequences, FiniteSets, TLC

\* The tasks that call into the cache.
Callers == {"t1", "t2"}

\* Relative paths (suffixes) under the one store point root.
Suffixes == {"test.txt", "other.txt"}

\* The values of the cached type (OUO { uid } in the tests).
Values == {"a", "b"}

NUL == "0"

----------------------------------------------------------------------------
(* serde_json, files and digests                                           *)

\* serde_json::to_string of a value.
Serialize(v) == <<"{", v, "}">>

NoResult == [kind |-> "none", val |-> "none"]
OkResult(v) == [kind |-> "ok", val |-> v]
ErrResult(e) == [kind |-> "err", val |-> e]

\* serde_json::from_str on the text of a file.
FromStr(content) ==
    IF Len(content) = 3 /\ content[1] = "{" /\ content[3] = "}" /\ content[2] \in Values
    THEN OkResult(content[2])
    ELSE ErrResult("Deserialize")

\* A path of the file system: absent, or a file with its bytes.
NoFile == [exists |-> FALSE, bytes |-> <<>>]
FileOf(bytes) == [exists |-> TRUE, bytes |-> bytes]

\* std::fs::read_to_string followed by serde_json::from_str.
ReadAndParse(file) ==
    IF file.exists THEN FromStr(file.bytes) ELSE ErrResult("Io")

ByteCode(b) ==
    CASE b = "{" -> 1
      [] b = "}" -> 2
      [] b = "a" -> 3
      [] b = "b" -> 4
      [] b = "E" -> 5
      [] OTHER -> 0

RECURSIVE HashFrom(_, _, _, _)
HashFrom(h, bytes, mult, modulus) ==
    IF bytes = <<>> THEN h
    ELSE HashFrom((h * mult + ByteCode(Head(bytes)) + 1) % modulus, Tail(bytes), mult, modulus)

\* sha1::Sha1 over the bytes (a small stand-in for the 20-byte digest).
Sha1Of(bytes) == HashFrom(1, bytes, 7, 97)

\* sha2::Sha256 over the bytes (a small stand-in for the 32-byte digest).
Sha256Of(bytes) == HashFrom(2, bytes, 11, 9973)

\* enum SHA { SHA1(Vec<u8>), SHA256(Vec<u8>) }
SHA1(d) == [alg |-> "SHA1", bytes |-> d]
SHA256(d) == [alg |-> "SHA256", bytes |-> d]

\* The digest a file's bytes have under the algorithm of a SHA value's variant.
DigestFor(sha, bytes) == IF sha.alg = "SHA1" THEN Sha1Of(bytes) ELSE Sha256Of(bytes)

\* Variant: the digest is always taken with SHA-1, whatever the variant.
DigestValidBothSha1(sha, content) == Sha1Of(content) = sha.bytes

\* check_cache's `valid`: the match on the SHA variant.
DigestValid(sha, content) ==
    CASE sha.alg = "SHA1" -> Sha1Of(content) = sha.bytes
      [] sha.alg = "SHA256" -> Sha256Of(content) = sha.bytes

\* A write(2) of chunk at offset off (0-based); a gap is filled with NUL.
WriteAt(bytes, off, chunk) ==
    LET n == IF Len(bytes) > off + Len(chunk) THEN Len(bytes) ELSE off + Len(chunk)
    IN [i \in 1..n |->
          IF i > off /\ i <= off + Len(chunk) THEN chunk[i - off]
          ELSE IF i <= Len(bytes) THEN bytes[i]
          ELSE NUL]

----------------------------------------------------------------------------
(* The environment of the cache                                            *)

\* What the server may answer to a GET: a status and a body.  reqwest's
\* send() succeeds for every status.
ErrorPage == <<"E">>
Responses ==
    {[status |-> 200, body |-> Serialize(v)] : v \in Values}
    \cup {[status |-> 404, body |-> ErrorPage]}
NoResp == [out |-> "none", status |-> 0, body |-> <<>>]
Answer(r) == [out |-> "ok", status |-> r.status, body |-> r.body]
SendFailed == [out |-> "sendfail", status |-> 0, body |-> <<>>]
BodyFailed(r) == [out |-> "bodyfail", status |-> r.status, body |-> <<>>]

\* The expected digests callers pass to check_cache.
ShaArgs ==
    {SHA1(Sha1Of(Serialize("a"))), SHA256(Sha256Of(Serialize("a"))),
     SHA256(Sha256Of(Serialize("b")))}
NoSha == [alg |-> "none", bytes |-> 0]

\* What may lie at a path before the first call: nothing, a document, a
\* document cut short by an aborted write, an empty file.
InitFiles ==
    {NoFile, FileOf(<<>>), FileOf(<<"{", "a">>)} \cup {FileOf(Serialize(v)) : v \in Values}

----------------------------------------------------------------------------
(* State                                                                   *)

VARIABLES
    fs,     \* the file at root + suffix, for every suffix
    dir,    \* whether the root directory (the parent of every path) exists
    call,   \* per caller: the try_cache / check_cache call in progress
    last,   \* per suffix: the call that completed there last (history)
    started \* the concurrent tasks that have made their call

cacheVars == <<fs, dir, call, last, started>>

NoLast == [op |-> "none", missed |-> FALSE, served |-> FALSE, result |-> NoResult]

IdleCall ==
    [op |-> "none", pc |-> "idle", suffix |-> "none", sha |-> NoSha,
     phase |-> "none", missResp |-> NoResp, reResp |-> NoResp, data |-> <<>>, off |-> 0,
     valid |-> FALSE, gets |-> 0, writes |-> 0, sawAbsent |-> FALSE,
     result |-> NoResult, pre |-> NoFile, prev |-> NoLast]

InitCache ==
    /\ fs \in [Suffixes -> InitFiles]
    /\ dir \in BOOLEAN
    /\ (\E s \in Suffixes : fs[s].exists) => dir
    /\ call = [c \in Callers |-> IdleCall]
    /\ last = [s \in Suffixes |-> NoLast]
    /\ started = {}

\* The concurrent tasks start on a fresh store point.
InitCacheConc ==
    /\ fs = [s \in Suffixes |-> NoFile]
    /\ dir = FALSE
    /\ call = [c \in Callers |-> IdleCall]
    /\ last = [s \in Suffixes |-> NoLast]
    /\ started = {}

AllIdle == \A c \in Callers : call[c].pc = "idle"

Set(c, r) == call' = [call EXCEPT ![c] = r]

----------------------------------------------------------------------------
(* Cache::try_cache and Cache::check_cache, one action per step            *)

\* A caller enters try_cache(base, suffix, client, url).
TryCache(c, s) ==
    /\ call[c].pc = "idle"
    /\ Set(c, [IdleCall EXCEPT !.op = "try_cache", !.pc = "mkdir", !.suffix = s,
                               !.phase = "miss", !.pre = fs[s], !.prev = last[s]])
    /\ UNCHANGED <<fs, dir, last>>

\* A caller enters check_cache(base, suffix, client, url, sha).
CheckCache(c, s, sha) ==
    /\ call[c].pc = "idle"
    /\ Set(c, [IdleCall EXCEPT !.op = "check_cache", !.pc = "mkdir", !.suffix = s,
                               !.sha = sha, !.phase = "miss", !.pre = fs[s],
                               !.prev = last[s]])
    /\ UNCHANGED <<fs, dir, last>>

\* handle_file_not_exist: tokio::fs::create_dir_all(path.parent()).
CreateDirAll(c) ==
    /\ call[c].pc = "mkdir"
    /\ dir' = TRUE
    /\ Set(c, [call[c] EXCEPT !.pc = "exists"])
    /\ UNCHANGED <<fs, last>>

\* Variant: the miss branch runs on every call.
NeedsFetchAlways(c) == TRUE

\* Variant: a file that does not deserialize counts as a miss.
NeedsFetchWhenInvalid(c) ==
    \/ ~fs[call[c].suffix].exists
    \/ FromStr(fs[call[c].suffix].bytes).kind = "err"

\* Variant: single-flight, a miss is not fetched while another call fetches it.
NeedsFetchSingleFlight(c) ==
    /\ ~fs[call[c].suffix].exists
    /\ \A d \in Callers \ {c} :
          ~(call[d].suffix = call[c].suffix /\ call[d].pc \in {"send", "bytes", "open", "write"})

\* handle_file_not_exist: `!path.exists()`.
NeedsFetch(c) == ~fs[call[c].suffix].exists

\* Where a call goes once the file is known to exist.
AfterExist(c) == IF call[c].op = "try_cache" THEN "read" ELSE "digest"

\* handle_file_not_exist: the existence test that chooses between the miss
\* branch and the plain return.
PathExists(c) ==
    /\ call[c].pc = "exists"
    /\ Set(c, [call[c] EXCEPT !.sawAbsent = ~fs[call[c].suffix].exists,
                              !.pc = IF NeedsFetch(c) THEN "send" ELSE AfterExist(c)])
    /\ UNCHANGED <<fs, dir, last>>

\* The response of the GET the call is at, and a call record with it set.
CurResp(c) == IF call[c].phase = "miss" THEN call[c].missResp ELSE call[c].reResp
WithResp(r, resp) ==
    IF r.phase = "miss" THEN [r EXCEPT !.missResp = resp] ELSE [r EXCEPT !.reResp = resp]

\* A GET answered with a success status and a payload.
Served(resp) == resp.out = "ok" /\ resp.status = 200

\* client.get(url).send().await? : the request reaches the server or not.
\* Both in the miss branch and in the re-fetch the `?` returns the error.
Send(c) ==
    /\ call[c].pc = "send"
    /\ \/ Set(c, WithResp([call[c] EXCEPT !.gets = @ + 1,
                                          !.result = ErrResult("NetworkFetch"), !.pc = "done"],
                            SendFailed))
       \/ \E r \in Responses :
             Set(c, WithResp([call[c] EXCEPT !.gets = @ + 1, !.pc = "bytes"], Answer(r)))
    /\ UNCHANGED <<fs, dir, last>>

\* Variant: the body of a re-fetch is dropped instead of written.
BytesNoWrite(c) ==
    /\ call[c].pc = "bytes"
    /\ \/ Set(c, [call[c] EXCEPT !.data = CurResp(c).body,
                                 !.pc = IF call[c].phase = "miss" THEN "open" ELSE "read"])
       \/ IF call[c].phase = "miss"
          THEN Set(c, WithResp([call[c] EXCEPT !.result = ErrResult("NetworkFetch"),
                                               !.pc = "done"],
                               BodyFailed(CurResp(c))))
          ELSE Set(c, WithResp([call[c] EXCEPT !.pc = "read"], BodyFailed(CurResp(c))))
    /\ UNCHANGED <<fs, dir, last>>

\* .bytes().await : the body arrives or the read of it fails.  The miss
\* branch returns the failure; the re-fetch logs it and goes on.
Bytes(c) ==
    /\ call[c].pc = "bytes"
    /\ \/ Set(c, [call[c] EXCEPT !.data = CurResp(c).body, !.pc = "open"])
       \/ IF call[c].phase = "miss"
          THEN Set(c, WithResp([call[c] EXCEPT !.result = ErrResult("NetworkFetch"),
                                               !.pc = "done"],
                               BodyFailed(CurResp(c))))
          ELSE Set(c, WithResp([call[c] EXCEPT !.pc = "read"], BodyFailed(CurResp(c))))
    /\ UNCHANGED <<fs, dir, last>>

\* tokio::fs::write, first half: File::create opens the path with
\* O_CREAT | O_TRUNC, so the file exists and is empty.
WriteOpen(c) ==
    /\ call[c].pc = "open"
    /\ fs' = [fs EXCEPT ![call[c].suffix] = FileOf(<<>>)]
    /\ Set(c, [call[c] EXCEPT !.off = 0, !.pc = "write"])
    /\ UNCHANGED <<dir, last>>

\* tokio::fs::write, second half: write_all puts the data down in one or
\* more write(2) calls at the descriptor's own offset.
WriteChunk(c) ==
    /\ call[c].pc = "write"
    /\ LET s == call[c].suffix
           off == call[c].off
           data == call[c].data
       IN IF off = Len(data)
          THEN /\ Set(c, [call[c] EXCEPT !.writes = @ + 1,
                             !.pc = IF call[c].phase = "miss" THEN AfterExist(c) ELSE "read"])
               /\ UNCHANGED fs
          ELSE \E n \in 1..(Len(data) - off) :
                 /\ fs' = [fs EXCEPT ![s] =
                             FileOf(WriteAt(fs[s].bytes, off, SubSeq(data, off + 1, off + n)))]
                 /\ Set(c, [call[c] EXCEPT !.off = off + n])
    /\ UNCHANGED <<dir, last>>

\* Variant: check_cache fetches again whatever the digest comparison says.
ReadForDigestRefetch(c) ==
    /\ call[c].pc = "digest"
    /\ LET f == fs[call[c].suffix]
       IN IF ~f.exists
          THEN Set(c, [call[c] EXCEPT !.result = ErrResult("Io"), !.pc = "done"])
          ELSE Set(c, [call[c] EXCEPT !.valid = DigestValid(call[c].sha, f.bytes),
                                      !.phase = "refetch", !.pc = "send"])
    /\ UNCHANGED <<fs, dir, last>>

\* check_cache: std::fs::read(path)? and the digest comparison.
ReadForDigest(c) ==
    /\ call[c].pc = "digest"
    /\ LET f == fs[call[c].suffix]
       IN IF ~f.exists
          THEN Set(c, [call[c] EXCEPT !.result = ErrResult("Io"), !.pc = "done"])
          ELSE LET v == DigestValid(call[c].sha, f.bytes)
               IN Set(c, [call[c] EXCEPT !.valid = v, !.phase = "refetch",
                                         !.pc = IF v THEN "read" ELSE "send"])
    /\ UNCHANGED <<fs, dir, last>>

\* Variant: check_cache compares the digest again before it returns.
ReadToStringRecheck(c) ==
    /\ call[c].pc = "read"
    /\ LET f == fs[call[c].suffix]
       IN Set(c, [call[c] EXCEPT !.pc = "done",
                    !.result = IF call[c].op = "check_cache" /\ f.exists
                                  /\ ~DigestValid(call[c].sha, f.bytes)
                               THEN ErrResult("DigestMismatch")
                               ELSE ReadAndParse(f)])
    /\ UNCHANGED <<fs, dir, last>>

\* std::fs::read_to_string(path)? ; serde_json::from_str(&content)? ; Ok(json)
ReadToString(c) ==
    /\ call[c].pc = "read"
    /\ Set(c, [call[c] EXCEPT !.result = ReadAndParse(fs[call[c].suffix]), !.pc = "done"])
    /\ UNCHANGED <<fs, dir, last>>

\* The future resolves: the caller has its result and may call again.
Return(c) ==
    /\ call[c].pc = "done"
    /\ last' = [last EXCEPT ![call[c].suffix] =
                  [op |-> call[c].op, missed |-> call[c].sawAbsent,
                   served |-> Served(call[c].missResp),
                   result |-> call[c].result]]
    /\ Set(c, IdleCall)
    /\ UNCHANGED <<fs, dir>>

\* The application clears the store point between calls
\* (tokio::fs::remove_dir_all in cache_test).
RemoveDirAll ==
    /\ AllIdle
    /\ dir
    /\ fs' = [s \in Suffixes |-> NoFile]
    /\ dir' = FALSE
    /\ last' = [s \in Suffixes |-> NoLast]
    /\ UNCHANGED call

Step(c) ==
    \/ CreateDirAll(c)
    \/ PathExists(c)
    \/ Send(c)
    \/ Bytes(c)
    \/ WriteOpen(c)
    \/ WriteChunk(c)
    \/ ReadForDigest(c)
    \/ ReadToString(c)
    \/ Return(c)

\* Calls made one after the other: a call starts when no other is in flight.
StartAlone(c) ==
    /\ AllIdle
    /\ \/ \E s \in Suffixes : TryCache(c, s)
       \/ \E s \in Suffixes, sha \in ShaArgs : CheckCache(c, s, sha)

\* The suffixes a concurrent task may pick: the tasks race on one path, the
\* one of the call already in flight.
Racing(s) == \A d \in Callers : call[d].pc # "idle" => call[d].suffix = s

\* Calls made by concurrent tasks: each task makes one call, at any moment;
\* the tasks are interchangeable, so t1 is the one that starts first.
StartAny(c) ==
    /\ c \notin started
    /\ c = "t2" => "t1" \in started
    /\ started' = started \cup {c}
    /\ \/ \E s \in Suffixes : Racing(s) /\ TryCache(c, s)
       \/ \E s \in Suffixes, sha \in ShaArgs : Racing(s) /\ CheckCache(c, s, sha)

----------------------------------------------------------------------------
(* ExpiringData<T>: the container, its clock and the wrapped types         *)

\* The last reading the wall clock may reach.
MaxClock == 3

\* The durations get_duration() may report (TestStruct's default is zero).
Durations == {0, 2}

\* The wrapped types: TestStruct1 derives NoRefresh, TestStruct2 refreshes
\* by doing nothing, MicrosoftAuth asks the token endpoint, Account runs
\* the login chain.
Kinds == {"TestStruct1", "TestStruct2", "MicrosoftAuth", "Account"}

VARIABLES
    now,    \* the wall clock, what Local::now() returns
    ed,     \* the container: data and created_at
    op,     \* the call on the container in progress
    hist    \* history: the clock at construction or at the last successful
            \* refresh, whether the clock was ever set back, and whether
            \* is_expired() has answered false since created_at was last set

expVars == <<now, ed, op, hist>>

\* From<T> for ExpiringData<T>: created_at is Local::now().
From(data, clock) == [data |-> data, created_at |-> clock]

\* The fields of MicrosoftAuth the container reads: expires_in and the tokens.
MsAuth(d, tok) == [duration |-> d, token |-> tok]

\* A type without a nested container has none.
NoMsa == From(MsAuth(0, "none"), 0)

\* A wrapped value: its duration (#[dur]), its token, and for an Account the
\* profile and the nested ExpiringData<MicrosoftAuth>.
Data(k, d, tok, prof, msa) ==
    [kind |-> k, duration |-> d, token |-> tok, profile |-> prof, msa |-> msa]

IdleOp ==
    [name |-> "none", pc |-> "idle", expired |-> "none", before |-> 0,
     ttl |-> 0, refreshes |-> 0, back |-> FALSE, result |-> "none",
     at |-> 0, inner |-> "none", chain |-> <<>>, fetched |-> MsAuth(0, "none"),
     msaAge |-> 0,
     snap |-> From(Data("none", 0, "none", "none", NoMsa), 0)]

\* A call entered at the current clock on the current container.
Enter(name) ==
    [IdleOp EXCEPT !.name = name, !.before = ed.created_at, !.ttl = ed.data.duration,
                   !.at = now, !.snap = ed]

InitExp ==
    /\ now \in 0..1
    /\ \E k \in Kinds, d \in Durations :
          \/ k # "Account" /\ ed = From(Data(k, d, "old", "none", NoMsa), now)
          \/ /\ k = "Account"
             /\ \E d2 \in Durations :
                   ed = From(Data(k, d, "old", "old", From(MsAuth(d2, "old"), now)), now)
    /\ op = IdleOp
    /\ hist = [stampedAt |-> now, rewound |-> FALSE, seen |-> {}]

\* Expirable::get_duration (the #[dur] field).
get_duration(data) == data.duration

\* Variant: expired only strictly after the duration.
is_expired_strict(e, clock) ==
    IF clock - e.created_at < 0 THEN "panic"
    ELSE IF clock - e.created_at > get_duration(e.data) THEN "true"
    ELSE "false"

\* ExpiringData::is_expired: to_std() fails on a negative difference and
\* expect() panics; otherwise duration >= get_duration().
is_expired(e, clock) ==
    IF clock - e.created_at < 0 THEN "panic"
    ELSE IF clock - e.created_at >= get_duration(e.data) THEN "true"
    ELSE "false"

\* Time passes.
Tick ==
    /\ now < MaxClock
    /\ now' = now + 1
    /\ UNCHANGED <<ed, op, hist>>

\* The wall clock is set back (Local::now() is not monotonic).
ClockSetBack ==
    /\ \E earlier \in 0..(now - 1) : now' = earlier
    /\ op' = IF op.pc \notin {"idle", "done"} THEN [op EXCEPT !.back = TRUE] ELSE op
    /\ hist' = [hist EXCEPT !.rewound = TRUE]
    /\ UNCHANGED ed

\* A call of is_expired() by the application.
IsExpired ==
    /\ op.pc = "idle"
    /\ op' = [Enter("is_expired") EXCEPT !.pc = "done", !.result = is_expired(ed, now)]
    /\ hist' = [hist EXCEPT !.seen = @ \cup ({is_expired(ed, now)} \cap {"false"})]
    /\ UNCHANGED <<now, ed>>

\* Variant: get_ref refreshes an expired container first, as try_ref does.
GetRefChecked ==
    /\ op.pc = "idle"
    /\ LET x == is_expired(ed, now)
       IN op' = [Enter("get_ref") EXCEPT
                    !.pc = IF x = "true" THEN "inner" ELSE "done",
                    !.result = IF x = "true" THEN "none" ELSE "ok"]
    /\ UNCHANGED <<now, ed, hist>>

\* A call of get_ref(): the data, whatever its age.
GetRef ==
    /\ op.pc = "idle"
    /\ op' = [Enter("get_ref") EXCEPT !.pc = "done", !.result = "ok"]
    /\ UNCHANGED <<now, ed, hist>>

\* ExpiringData::refresh is entered.
Refresh ==
    /\ op.pc = "idle"
    /\ op' = [Enter("refresh") EXCEPT !.pc = "inner"]
    /\ UNCHANGED <<now, ed, hist>>

\* ExpiringData::try_ref is entered: `if self.is_expired()`.
TryRef ==
    /\ op.pc = "idle"
    /\ LET x == is_expired(ed, now)
       IN op' = [Enter("try_ref") EXCEPT
                    !.expired = IF now - ed.created_at < 0 THEN "panic"
                                ELSE IF now - ed.created_at >= ed.data.duration THEN "true"
                                ELSE "false",
                    !.pc = IF x = "true" THEN "inner" ELSE "done",
                    !.result = IF x = "true" THEN "none" ELSE IF x = "false" THEN "ok" ELSE "panic"]
    /\ UNCHANGED <<now, ed, hist>>

\* Variant: created_at is reset whatever the wrapped refresh returned.
FailedButStamped(o) == [o EXCEPT !.inner = "err", !.pc = "stamp"]

\* Variant: the refresh derived by NoRefresh returns Ok(()).
PanickedAsOk(o) == [o EXCEPT !.inner = "ok", !.pc = "stamp"]

\* The wrapped refresh ended with an error, which `?` returns.
Failed(o) == [o EXCEPT !.inner = "err", !.result = "err", !.pc = "done"]

\* The wrapped refresh panicked.
Panicked(o) == [o EXCEPT !.inner = "panic", !.result = "panic", !.pc = "done"]

\* The wrapped refresh returned Ok(()).
Succeeded(o) == [o EXCEPT !.inner = "ok", !.pc = "stamp"]

\* self.data.refresh(args).await? : the wrapped value's refresh.
\* NoRefresh panics, TestStruct2 returns Ok(()), MicrosoftAuth returns the
\* request's error or parses the endpoint's answer (fetched) into a local,
\* rebinds `self` to it and returns Ok(()): the data stays as it was.
RefreshData ==
    /\ op.pc = "inner"
    /\ ed.data.kind # "Account"
    /\ LET o == [op EXCEPT !.refreshes = @ + 1]
       IN CASE ed.data.kind = "TestStruct1" -> op' = Panicked(o)
            [] ed.data.kind = "TestStruct2" -> op' = Succeeded(o)
            [] ed.data.kind = "MicrosoftAuth" ->
                  \/ op' = Failed(o)
                  \/ \E d \in Durations : op' = Succeeded([o EXCEPT !.fetched = MsAuth(d, "new")])
    /\ UNCHANGED <<now, ed, hist>>

\* Variant: the Microsoft token is refreshed whether or not it is expired.
AccountMsaTryRefAlways ==
    /\ op.pc = "inner"
    /\ ed.data.kind = "Account"
    /\ LET x == is_expired(ed.data.msa, now)
           o == [op EXCEPT !.refreshes = @ + 1, !.chain = Append(@, "msa"),
                           !.msaAge = now - ed.data.msa.created_at]
       IN op' = CASE x = "panic" -> Panicked(o)
                  [] OTHER -> [o EXCEPT !.pc = "msa_refresh"]
    /\ UNCHANGED <<now, ed, hist>>

\* Account::refresh, first step: self.msa.try_ref(..).await?, which tests
\* the nested container's expiry.
AccountMsaTryRef ==
    /\ op.pc = "inner"
    /\ ed.data.kind = "Account"
    /\ LET x == is_expired(ed.data.msa, now)
           o == [op EXCEPT !.refreshes = @ + 1, !.chain = Append(@, "msa"),
                           !.msaAge = now - ed.data.msa.created_at]
       IN op' = CASE x = "panic" -> Panicked(o)
                  [] x = "true" -> [o EXCEPT !.pc = "msa_refresh"]
                  [] x = "false" -> [o EXCEPT !.pc = "xbl"]
    /\ UNCHANGED <<now, ed, hist>>

\* The nested MicrosoftAuth::refresh: the token endpoint refuses, or answers
\* and the answer is parsed into a local.
AccountMsaRefresh ==
    /\ op.pc = "msa_refresh"
    /\ LET o == [op EXCEPT !.chain = Append(@, "token")]
       IN op' = Failed(o) \/ op' = [o EXCEPT !.pc = "msa_stamp"]
    /\ UNCHANGED <<now, ed, hist>>

\* The nested ExpiringData::refresh resets the nested created_at.
AccountMsaStamp ==
    /\ op.pc = "msa_stamp"
    /\ ed' = [ed EXCEPT !.data.msa.created_at = now]
    /\ op' = [op EXCEPT !.pc = "xbl"]
    /\ UNCHANGED <<now, hist>>

\* XboxLiveToken::fetch(&client, &msa.access_token).await?
AccountXboxLive ==
    /\ op.pc = "xbl"
    /\ LET o == [op EXCEPT !.chain = Append(@, "xbl")]
       IN op' = Failed(o) \/ op' = [o EXCEPT !.pc = "xsts"]
    /\ UNCHANGED <<now, ed, hist>>

\* XboxSecurityToken::fetch(&client, xbox_live).await?
AccountXboxSecurity ==
    /\ op.pc = "xsts"
    /\ LET o == [op EXCEPT !.chain = Append(@, "xsts")]
       IN op' = Failed(o) \/ op' = [o EXCEPT !.pc = "mc"]
    /\ UNCHANGED <<now, ed, hist>>

\* Variant: self.mc_auth is assigned as soon as the Minecraft auth is fetched.
AccountMinecraftAssigns ==
    /\ op.pc = "mc"
    /\ LET o == [op EXCEPT !.chain = Append(@, "mc")]
       IN \/ op' = Failed(o) /\ UNCHANGED ed
          \/ \E d \in Durations :
                /\ op' = [o EXCEPT !.fetched = MsAuth(d, "new"), !.pc = "profile"]
                /\ ed' = [ed EXCEPT !.data.duration = d, !.data.token = "new"]
    /\ UNCHANGED <<now, hist>>

\* MinecraftAuth::fetch(&client, xbox_security).await? : a new token with
\* its own expires_in.
AccountMinecraft ==
    /\ op.pc = "mc"
    /\ LET o == [op EXCEPT !.chain = Append(@, "mc")]
       IN \/ op' = Failed(o)
          \/ \E d \in Durations : op' = [o EXCEPT !.fetched = MsAuth(d, "new"), !.pc = "profile"]
    /\ UNCHANGED <<now, ed, hist>>

\* Profile::fetch(&client, &mc_auth).await? ; self.mc_auth = mc_auth;
\* self.profile = profile; Ok(())
AccountProfile ==
    /\ op.pc = "profile"
    /\ LET o == [op EXCEPT !.chain = Append(@, "profile")]
       IN \/ op' = Failed(o) /\ UNCHANGED ed
          \/ /\ op' = Succeeded(o)
             /\ ed' = [ed EXCEPT !.data.duration = op.fetched.duration,
                                 !.data.token = op.fetched.token,
                                 !.data.profile = "new"]
    /\ UNCHANGED <<now, hist>>

\* Variant: created_at is left as it was.
StampedKeep(e, clock) == e

\* self.created_at = Local::now();
Stamped(e, clock) == [e EXCEPT !.created_at = clock]

\* ExpiringData::refresh after the wrapped refresh returned Ok: the reset
\* of created_at and Ok(()).
Stamp ==
    /\ op.pc = "stamp"
    /\ ed' = Stamped(ed, now)
    /\ op' = [op EXCEPT !.result = "ok", !.pc = "done"]
    /\ hist' = [hist EXCEPT !.stampedAt = now, !.seen = {}]
    /\ UNCHANGED now

\* The call is over; the application may call again.
ReturnOp ==
    /\ op.pc = "done"
    /\ op' = IdleOp
    /\ UNCHANGED <<now, ed, hist>>

NextExp ==
    \/ Tick
    \/ ClockSetBack
    \/ IsExpired
    \/ GetRef
    \/ Refresh
    \/ TryRef
    \/ RefreshData
    \/ AccountMsaTryRef
    \/ AccountMsaRefresh
    \/ AccountMsaStamp
    \/ AccountXboxLive
    \/ AccountXboxSecurity
    \/ AccountMinecraft
    \/ AccountProfile
    \/ Stamp
    \/ ReturnOp

----------------------------------------------------------------------------
(* SHA: the hexadecimal codec of digests                                   *)

\* decode.len() == 20 : a SHA-1 digest.
Sha1Len == 20

\* decode.len() == 32 : a SHA-256 digest.
Sha256Len == 32

\* The longest input, in two-character pairs.
MaxPairs == 33

\* The digits of radix 16 in the order of their values, as {:x} prints them.
HexChars == <<"0", "1", "2", "3", "4", "5", "6", "7", "8", "9", "a", "b", "c", "d", "e", "f">>

\* The capital digits char::to_digit(16) accepts as well.
UpperChars == <<"A", "B", "C", "D", "E", "F">>

\* char::to_digit(16): the value of a digit, or -1 for any other character.
to_digit(ch) ==
    IF \E i \in 1..16 : HexChars[i] = ch THEN (CHOOSE i \in 1..16 : HexChars[i] = ch) - 1
    ELSE IF \E i \in 1..6 : UpperChars[i] = ch THEN (CHOOSE i \in 1..6 : UpperChars[i] = ch) + 9
    ELSE -1

\* u8::from_str_radix(pair, 16) on a two-character slice: a leading "+" is
\* taken as a sign, every other character must be a digit. -1 is Err.
from_str_radix(pair) ==
    IF pair[1] = "+" THEN to_digit(pair[2])
    ELSE IF to_digit(pair[1]) < 0 \/ to_digit(pair[2]) < 0 THEN -1
    ELSE 16 * to_digit(pair[1]) + to_digit(pair[2])

RECURSIVE DecodeFrom(_, _, _)
\* The iterator of decode_hex from 0-based offset i on, collected into a
\* Result: the first Err ends it, and &s[i..i + 2] past the end panics.
DecodeFrom(s, i, acc) ==
    IF i >= Len(s) THEN [kind |-> "ok", bytes |-> acc]
    ELSE IF i + 2 > Len(s) THEN [kind |-> "panic", bytes |-> <<>>]
    ELSE IF from_str_radix(SubSeq(s, i + 1, i + 2)) < 0 THEN [kind |-> "err", bytes |-> <<>>]
    ELSE DecodeFrom(s, i + 2, Append(acc, from_str_radix(SubSeq(s, i + 1, i + 2))))

\* fn decode_hex(s: &str) -> Result<Vec<u8>, ParseIntError>
decode_hex(s) == DecodeFrom(s, 0, <<>>)

\* The outcomes of a conversion.
NoSHA == SHA1(<<>>)
ShaOk(v) == [kind |-> "ok", sha |-> v]
ShaErr == [kind |-> "err", sha |-> NoSHA]
ShaPanic == [kind |-> "panic", sha |-> NoSHA]

\* Variant: 20 bytes give the SHA256 variant and 32 bytes the SHA1 variant.
try_from_swapped(value) ==
    LET decode == decode_hex(value)
    IN CASE decode.kind = "err" -> ShaErr
         [] decode.kind = "panic" -> ShaPanic
         [] decode.kind = "ok" /\ Len(decode.bytes) = Sha1Len -> ShaOk(SHA256(decode.bytes))
         [] decode.kind = "ok" /\ Len(decode.bytes) = Sha256Len -> ShaOk(SHA1(decode.bytes))
         [] OTHER -> ShaPanic

\* TryFrom<&str> for SHA: decode_hex(value)?, SHA1 for 20 bytes, SHA256 for
\* 32, and unreachable!() for every other length.
try_from(value) ==
    LET decode == decode_hex(value)
    IN CASE decode.kind = "err" -> ShaErr
         [] decode.kind = "panic" -> ShaPanic
         [] decode.kind = "ok" /\ Len(decode.bytes) = Sha1Len -> ShaOk(SHA1(decode.bytes))
         [] decode.kind = "ok" /\ Len(decode.bytes) = Sha256Len -> ShaOk(SHA256(decode.bytes))
         [] OTHER -> ShaPanic

\* format!("{:2x}", x): lowercase hexadecimal, padded with spaces to width 2.
Format2x(x) ==
    IF x < 16 THEN <<" ", HexChars[x + 1]>>
    ELSE <<HexChars[(x \div 16) + 1], HexChars[(x % 16) + 1]>>

RECURSIVE Collect(_)
\* v.iter().map(..).collect() : the pieces joined into one String.
Collect(v) == IF v = <<>> THEN <<>> ELSE Format2x(Head(v)) \o Collect(Tail(v))

\* From<&SHA> for String
StringFrom(value) == Collect(value.bytes)

\* hasher.finalize().as_slice() of sha1::Sha1: 20 bytes.
Sha1Bytes(content) == [i \in 1..Sha1Len |-> (Sha1Of(content) * i + i) % 256]

\* hasher.finalize().as_slice() of sha2::Sha256: 32 bytes.
Sha256Bytes(content) == [i \in 1..Sha256Len |-> (Sha256Of(content) * i + 3) % 256]

\* Variant: the digest is taken with SHA-256 and cut to the expected length.
ValidBytesBySha256(sha, content) ==
    SubSeq(Sha256Bytes(content), 1, Len(sha.bytes)) = sha.bytes

\* check_cache's `valid` on digest bytes: the match on the SHA variant.
ValidBytes(sha, content) ==
    CASE sha.alg = "SHA1" -> Sha1Bytes(content) = sha.bytes
      [] sha.alg = "SHA256" -> Sha256Bytes(content) = sha.bytes

\* A digest as a manifest publishes it: two lowercase digits a byte.
RECURSIVE Published(_)
Published(v) ==
    IF v = <<>> THEN <<>>
    ELSE <<HexChars[(Head(v) \div 16) + 1], HexChars[(Head(v) % 16) + 1]>> \o Published(Tail(v))

\* The contents a cached file may have.
Contents == {Serialize(v) : v \in Values}

\* The pair the repository's test string starts with.
Filler == <<"8", "a">>

\* Pairs put at one place of an input: digits with a leading zero, capital
\* digits, a sign, characters that are no digits.
SpecialPairs ==
    {<<"8", "a">>, <<"0", "a">>, <<"f", "f">>, <<"A", "0">>, <<"+", "a">>, <<"g", "1">>, <<"1", " ">>}

\* What may follow the last pair: nothing, or one more character.
Trailers == {<<>>, <<"7">>, <<"z">>}

RECURSIVE Pairs(_, _, _)
\* n pairs of Filler, the k-th replaced by pair.
Pairs(n, k, pair) ==
    IF n = 0 THEN <<>>
    ELSE Pairs(n - 1, k, pair) \o (IF n = k THEN pair ELSE Filler)

\* The strings handed to SHA::try_from.
Inputs ==
    UNION {{Pairs(n, k, pair) \o tr : k \in {1, n}, pair \in SpecialPairs, tr \in Trailers} :
              n \in 0..MaxPairs}
    \cup {Published(Sha1Bytes(c)) : c \in Contents}
    \cup {Published(Sha256Bytes(c)) : c \in Contents}
    \cup {Published(SubSeq(Sha256Bytes(c), 1, Sha1Len)) : c \in Contents}

VARIABLE codec   \* one conversion: its input, position and outcomes

IdleCodec ==
    [pc |-> "idle", input |-> <<>>, res |-> ShaPanic, str |-> <<>>,
     content |-> <<>>, valid |-> FALSE]

InitSha == \E s \in Inputs : codec = [IdleCodec EXCEPT !.pc = "in", !.input = s]

\* let sha: SHA = s.try_into()
ShaTryFrom ==
    /\ codec.pc = "in"
    /\ codec' = [codec EXCEPT !.res = try_from(codec.input), !.pc = "parsed"]

\* let s: String = sha.into()
ShaInto ==
    /\ codec.pc = "parsed"
    /\ codec.res.kind = "ok"
    /\ codec' = [codec EXCEPT !.str = StringFrom(codec.res.sha), !.pc = "printed"]

\* check_cache with this SHA on a file holding content.
ShaValid ==
    /\ codec.pc = "parsed"
    /\ codec.res.kind = "ok"
    /\ \E content \in Contents :
          codec' = [codec EXCEPT !.content = content,
                                 !.valid = ValidBytes(codec.res.sha, content),
                                 !.pc = "verified"]

NextSha ==
    \/ ShaTryFrom
    \/ ShaInto
    \/ ShaValid

----------------------------------------------------------------------------
(* Store, Save and Load: values kept in files under a store point          *)

\* The strings a C<T> { num } of the tests may hold; its suffix is
\* format!("{}.txt", num).
Nums == {"123", "./123", "456"}

\* The digests a PackageInfo of a stored PackageList may hold: the SHA-256
\* digest of a document, and one made of the byte 0x8a only.
StoredDigests ==
    {SHA256(Sha256Bytes(Serialize("a"))), SHA256([i \in 1..Sha256Len |-> 138])}

\* The stored types: A (unit struct, Store), PackageList (Store, holds
\* sha256: SHA), D = C<TestPath> (Save and Load).
ValueA == [type |-> "A", num |-> "", sha |-> NoSHA]
ValuePackageList(s) == [type |-> "PackageList", num |-> "", sha |-> s]
ValueD(n) == [type |-> "D", num |-> n, sha |-> NoSHA]
StoreValues == {ValueA} \cup {ValuePackageList(s) : s \in StoredDigests}
SaveValues == {ValueD(n) : n \in Nums}

\* serde_json::to_string(self): null for a unit struct, the string of a D,
\* and for a PackageList the digest as Serialize for SHA prints it ("#"
\* stands for the key and the quotes around it).
to_string(v) ==
    CASE v.type = "A" -> <<"null">>
      [] v.type = "D" -> <<"{", v.num, "}">>
      [] v.type = "PackageList" -> <<"{", "#">> \o StringFrom(v.sha) \o <<"}">>

\* The outcome of a save or a load.
NoOutcome == [kind |-> "none", err |-> "none", val |-> ValueA]
Ok(v) == [kind |-> "ok", err |-> "none", val |-> v]
Err(e) == [kind |-> "err", err |-> e, val |-> ValueA]
Abort == [kind |-> "panic", err |-> "none", val |-> ValueA]

\* serde_json::from_str::<T>(&json): a digest is read with
\* Deserialize for SHA, that is String::deserialize and try_into().
from_str(type, json) ==
    CASE type = "A" -> IF json = <<"null">> THEN Ok(ValueA) ELSE Err("Corrupt")
      [] type = "D" ->
            IF Len(json) = 3 /\ json[1] = "{" /\ json[3] = "}" /\ json[2] \in Nums
            THEN Ok(ValueD(json[2]))
            ELSE Err("Corrupt")
      [] type = "PackageList" ->
            IF Len(json) >= 3 /\ json[1] = "{" /\ json[2] = "#" /\ json[Len(json)] = "}"
            THEN LET sha == try_from(SubSeq(json, 3, Len(json) - 1))
                 IN CASE sha.kind = "ok" -> Ok(ValuePackageList(sha.sha))
                      [] sha.kind = "err" -> Err("Corrupt")
                      [] sha.kind = "panic" -> Abort
            ELSE Err("Corrupt")

\* const FILE_PATH of the Store types.
FILE_PATH(type) == IF type = "A" THEN <<"test.txt">> ELSE <<"packages.json">>

\* ExpandStorePoint::get_suffix of a D: PathBuf::from(format!("{}.txt", num)),
\* as its components.
get_suffix(v) ==
    CASE v.num = "123" -> <<"123.txt">>
      [] v.num = "./123" -> <<".", "123.txt">>
      [] v.num = "456" -> <<"456.txt">>

\* The suffixes of the Save values.
SaveSuffixes == {get_suffix(v) : v \in SaveValues}

\* The file a path under the store point names: the file system skips the
\* "." components.
Resolve(path) == SelectSeq(path, LAMBDA comp : comp # ".")

\* Store::full_path: the root joined with every segment of FILE_PATH.
full_path(type) == Resolve(FILE_PATH(type))

\* Variant: Load::load reads the file of the first suffix, whatever the
\* suffix passed.
LoadPathFixed(suffix) == <<"123.txt">>

\* Load::load's base.get_base().join(suffix)
LoadPath(suffix) == Resolve(suffix)

\* Save::save's base.get_base().join(&self.get_suffix())
SavePath(v) == Resolve(get_suffix(v))

\* The files under the store point.
Files == {full_path("A"), full_path("PackageList")} \cup {SavePath(v) : v \in SaveValues}

\* What another program, or a write cut short, may leave in a file: the
\* start of a document, a document whose digest has one byte.
Damaged == {<<"{">>, <<"{", "#", "8", "a", "}">>}

VARIABLES
    disk,   \* the store point: whether its directory exists, and its files
    sop,    \* the save or load made last, with the disk it found
    lastAt  \* history, per file: the value and suffix of the last save there

storeVars == <<disk, sop, lastAt>>

NoDisk == [root |-> FALSE, file |-> [f \in Files |-> NoFile]]
NoSop ==
    [name |-> "none", type |-> "none", suffix |-> <<>>, path |-> <<>>, val |-> ValueA,
     out |-> NoOutcome, before |-> NoDisk]
NoSave == [set |-> FALSE, val |-> ValueA, suffix |-> <<>>]

\* A fresh store point.
InitStore ==
    /\ disk = NoDisk
    /\ sop = NoSop
    /\ lastAt = [f \in Files |-> NoSave]

\* Variant: the directory is emptied before the file is written.
WrittenAlone(d, path, v) ==
    [root |-> TRUE, file |-> [f \in Files |-> IF f = path THEN FileOf(to_string(v)) ELSE NoFile]]

\* create_dir_all(parent) and std::fs::write(path, to_string(self)).
Written(d, path, v) ==
    [root |-> TRUE, file |-> [d.file EXCEPT ![path] = FileOf(to_string(v))]]

\* read_to_string(path)? and from_str(&json)? .
ReadAs(type, d, path) ==
    IF ~d.file[path].exists THEN Err("NotFound") ELSE from_str(type, d.file[path].bytes)

\* Store::save(&self, base)
StoreSave ==
    \E v \in StoreValues :
        /\ disk' = Written(disk, full_path(v.type), v)
        /\ sop' = [name |-> "Store::save", type |-> v.type, suffix |-> FILE_PATH(v.type),
                   path |-> full_path(v.type), val |-> v, out |-> Ok(v), before |-> disk]
        /\ lastAt' = [lastAt EXCEPT ![full_path(v.type)] =
                         [set |-> TRUE, val |-> v, suffix |-> FILE_PATH(v.type)]]

\* Store::load(base)
StoreLoad ==
    \E type \in {"A", "PackageList"} :
        /\ sop' = [name |-> "Store::load", type |-> type, suffix |-> FILE_PATH(type),
                   path |-> full_path(type), val |-> ValueA,
                   out |-> ReadAs(type, disk, full_path(type)), before |-> disk]
        /\ UNCHANGED <<disk, lastAt>>

\* Save::save(&self, base)
SaveSave ==
    \E v \in SaveValues :
        /\ disk' = Written(disk, SavePath(v), v)
        /\ sop' = [name |-> "Save::save", type |-> v.type, suffix |-> get_suffix(v),
                   path |-> SavePath(v), val |-> v, out |-> Ok(v), before |-> disk]
        /\ lastAt' = [lastAt EXCEPT ![SavePath(v)] =
                         [set |-> TRUE, val |-> v, suffix |-> get_suffix(v)]]

\* Load::load(base, suffix)
LoadLoad ==
    \E suffix \in SaveSuffixes :
        /\ sop' = [name |-> "Load::load", type |-> "D", suffix |-> suffix,
                   path |-> LoadPath(suffix), val |-> ValueA,
                   out |-> ReadAs("D", disk, LoadPath(suffix)), before |-> disk]
        /\ UNCHANGED <<disk, lastAt>>

\* Another program overwrites a file of the store point, or a write to it
\* was cut short.
Damage ==
    \E f \in Files, bytes \in Damaged :
        /\ disk.root
        /\ disk' = [disk EXCEPT !.file[f] = FileOf(bytes)]
        /\ sop' = [NoSop EXCEPT !.name = "damage", !.path = f, !.before = disk]
        /\ lastAt' = [lastAt EXCEPT ![f] = NoSave]

\* tokio::fs::remove_dir_all(path), as the tests end.
RemoveStore ==
    /\ disk.root
    /\ disk' = NoDisk
    /\ sop' = [NoSop EXCEPT !.name = "remove", !.before = disk]
    /\ lastAt' = [f \in Files |-> NoSave]

NextStore ==
    \/ StoreSave
    \/ StoreLoad
    \/ SaveSave
    \/ LoadLoad
    \/ Damage
    \/ RemoveStore

----------------------------------------------------------------------------
(* CacheBuilder: the builder in front of try_cache and check_cache         *)

\* The most segments added to one builder.
MaxAdds == 2

\* The store point of cache_test.
StorePoint == "test_ouo"

\* The store points base_on() may be given.
StorePoints == {StorePoint, "test_other"}

\* Option<T>::None
None == "None"

\* The arguments of url(): none was given (builder()'s ""), or one.
Urls == {"", "https://meta.prismlauncher.org/v1/org.lwjgl/"}

\* The arguments of add(): the file name of cache_test, an absolute path and
\* the parent directory (a package uid comes from fetched metadata).
Segments == {"test.txt", "/srv", ".."}

\* Path::is_absolute of a segment.
is_absolute(seg) == seg = "/srv"

\* The task that uses the builder.
BuilderTask == "t1"

VARIABLES
    cb,     \* the CacheBuilder: url, buf, base, and (history) the segments
            \* added and the arguments of the last url() and base_on()
    issued  \* the build_try / build_check made on the builder as it is, and
            \* the call it issued

builderVars == <<cb, issued>>

\* Cache::builder()
NewBuilder ==
    [url |-> "", buf |-> <<>>, base |-> None, log |-> <<>>, lastUrl |-> "", lastBase |-> None]

\* Path::components of a segment.
Components(seg) == IF is_absolute(seg) THEN <<"/", "srv">> ELSE <<seg>>

\* The location the operating system resolves a path to, relative to the
\* working directory: an absolute component starts over, ".." leaves the
\* directory reached so far (the root directory is its own parent).
RECURSIVE Normal(_, _)
Normal(at, rest) ==
    IF rest = <<>> THEN at
    ELSE LET c == Head(rest)
             to == CASE is_absolute(c) -> Components(c)
                      [] c = ".." /\ at = <<"/">> -> at
                      [] c = ".." /\ (at = <<>> \/ at[Len(at)] = "..") -> Append(at, "..")
                      [] c = ".." -> SubSeq(at, 1, Len(at) - 1)
                      [] OTHER -> Append(at, c)
         IN Normal(to, Tail(rest))

\* let path = base.get_base().join(suffix): where the entry point works.
Location(base, suffix) == Normal(<<>>, <<base>> \o suffix)

\* The directories create_dir_all(path.parent()) makes sure of: the parent
\* and every directory above it.
Ancestors(path) == {SubSeq(path, 1, k) : k \in 0..(Len(path) - 1)}

\* The directories that exist before any call: the working directory, the
\* directories above it and the root directory.
Standing(path) == \A i \in 1..Len(path) : path[i] \in {"/", ".."}

\* A location lies under the store point's root.
Under(base, path) == Len(path) >= 1 /\ path[1] = base

NoIssue ==
    [fn |-> "none", via |-> "none", out |-> "none", base |-> None, suffix |-> <<>>, url |-> "",
     sha |-> NoSha, fs |-> [s \in Suffixes |-> NoFile], dir |-> FALSE, made |-> {},
     of |-> NewBuilder]

InitBuilder ==
    /\ cb = NewBuilder
    /\ issued = NoIssue

\* Variant: every push replaces the buffer.
push_replace(buf, seg) == <<seg>>

\* PathBuf::push: an absolute path replaces the buffer, a relative one is
\* appended as a further component.
push(buf, seg) == IF is_absolute(seg) THEN <<seg>> ELSE Append(buf, seg)

\* Variant: a builder with no base builds on the store point.
unwrap_or_default(base) == IF base = None THEN StorePoint ELSE base

\* Option::unwrap: the value, or a panic.
unwrap(base) == IF base = None THEN "panic" ELSE base

\* let b = T::builder()
Builder ==
    /\ call[BuilderTask].pc = "idle"
    /\ cb # NewBuilder
    /\ cb' = NewBuilder
    /\ issued' = NoIssue
    /\ UNCHANGED cacheVars

\* CacheBuilder::add
Add ==
    /\ call[BuilderTask].pc = "idle"
    /\ Len(cb.log) < MaxAdds
    /\ \E seg \in Segments :
          cb' = [cb EXCEPT !.buf = push(cb.buf, seg), !.log = Append(cb.log, seg)]
    /\ issued' = NoIssue
    /\ UNCHANGED cacheVars

\* Variant: the url given first stays.
set_url_once(url, args) == IF url = "" THEN args ELSE url

\* self.url = args.as_ref().to_string();
set_url(url, args) == args

\* CacheBuilder::url
Url ==
    /\ call[BuilderTask].pc = "idle"
    /\ \E u \in Urls :
          /\ u # cb.lastUrl
          /\ cb' = [cb EXCEPT !.url = set_url(cb.url, u), !.lastUrl = u]
    /\ issued' = NoIssue
    /\ UNCHANGED cacheVars

\* CacheBuilder::base_on
BaseOn ==
    /\ call[BuilderTask].pc = "idle"
    /\ \E b \in StorePoints :
          /\ b # cb.lastBase
          /\ cb' = [cb EXCEPT !.base = b, !.lastBase = b]
    /\ issued' = NoIssue
    /\ UNCHANGED cacheVars

\* The call a terminal operation issues, or its panic.
Issue(via, fn, sha) ==
    IF unwrap(cb.base) = "panic"
    THEN [NoIssue EXCEPT !.via = via, !.out = "panic", !.fs = fs, !.dir = dir, !.of = cb]
    ELSE [NoIssue EXCEPT !.fn = fn, !.via = via, !.out = "future", !.base = unwrap(cb.base),
                         !.suffix = cb.buf, !.url = cb.url, !.sha = sha, !.of = cb]

\* CacheBuilder::build_try(&self, client): unwrap the base, then
\* U::try_cache(base, &self.buf, client, &self.url).
BuildTry ==
    /\ call[BuilderTask].pc = "idle"
    /\ issued' = Issue("build_try", "try_cache", NoSha)
    /\ UNCHANGED <<cb, cacheVars>>

\* CacheBuilder::build_check(&self, client, sha): unwrap the base, then
\* U::check_cache(base, &self.buf, client, &self.url, sha).
BuildCheck ==
    /\ call[BuilderTask].pc = "idle"
    /\ \E sha \in ShaArgs : issued' = Issue("build_check", "check_cache", sha)
    /\ UNCHANGED <<cb, cacheVars>>

\* The future a terminal operation returned is awaited: the issued call
\* runs on a file of the cache.
Await ==
    /\ issued.out = "future"
    /\ issued.base = StorePoint
    /\ Len(issued.suffix) = 1
    /\ issued.suffix[1] \in Suffixes
    /\ \/ issued.fn = "try_cache" /\ TryCache(BuilderTask, issued.suffix[1])
       \/ issued.fn = "check_cache" /\ CheckCache(BuilderTask, issued.suffix[1], issued.sha)
    /\ issued' = [issued EXCEPT !.out = "awaited"]
    /\ UNCHANGED <<cb, started>>

\* The future is awaited on any other path (a future with an empty path is
\* dropped): handle_file_not_exist creates the parent directories of
\* base.join(suffix) and, unless something is there already or the GET
\* fails, writes the body to that path. `made` is what the call created.
AwaitAt ==
    /\ issued.out = "future"
    /\ issued.suffix # <<>>
    /\ ~(issued.base = StorePoint /\ Len(issued.suffix) = 1 /\ issued.suffix[1] \in Suffixes)
    /\ LET path == Location(issued.base, issued.suffix)
           dirs == {d \in Ancestors(path) : ~Standing(d)}
       IN \E got \in IF Standing(path) THEN {"exists"} ELSE {"exists", "err", "ok"} :
             issued' = [issued EXCEPT !.out = "awaited",
                                     !.made = IF got = "ok" THEN dirs \cup {path} ELSE dirs]
    /\ UNCHANGED <<cb, cacheVars>>

NextBuilder ==
    \/ Builder
    \/ Add
    \/ Url
    \/ BaseOn
    \/ BuildTry
    \/ BuildCheck
    \/ Await
    \/ AwaitAt
    \/ Step(BuilderTask) /\ UNCHANGED <<started, builderVars>>

----------------------------------------------------------------------------
(* Platform::allow_rule: the rules of a library                            *)

\* The longest rule list.
MaxRules == 3

\* The platforms: the one the program runs on (Platform::me) and the ones a
\* rule may name.
Platforms == {"Windows", "Linux", "Unknown"}

\* enum Action
Actions == {"Allow", "Disallow"}

\* struct Rule: an action and an optional platform.
Rule == [action : Actions, os : Platforms \cup {None}]

\* The rule lists of a library.
RuleLists == UNION {[1..n -> Rule] : n \in 0..MaxRules}

VARIABLE lib    \* the call of allow_rule: platform, rules and answer

metaVars == <<lib>>

IdleLib == [pc |-> "idle", self |-> "Unknown", rules |-> <<>>, result |-> FALSE]

InitLib == lib = IdleLib

\* `i.os.is_none() || Some(self.clone()) == i.os`
Applies(self, i) == i.os = None \/ i.os = self

\* Variant: the first rule that applies decides.
RECURSIVE FirstApplies(_, _)
FirstApplies(self, rules) ==
    IF rules = <<>> THEN FALSE
    ELSE IF Applies(self, Head(rules)) THEN Head(rules).action = "Allow"
    ELSE FirstApplies(self, Tail(rules))

\* The loop of allow_rule: an Allow that applies sets data, a Disallow that
\* applies returns false at once, the end of the list returns data.
RECURSIVE ForRules(_, _, _)
ForRules(self, rules, data) ==
    IF rules = <<>> THEN data
    ELSE LET i == Head(rules)
         IN IF i.action = "Allow"
            THEN ForRules(self, Tail(rules), IF Applies(self, i) THEN TRUE ELSE data)
            ELSE IF Applies(self, i) THEN FALSE
            ELSE ForRules(self, Tail(rules), data)

\* Variant: the first rule that applies decides the answer.
allow_rule_first(self, rules) ==
    IF Len(rules) = 0 THEN TRUE ELSE FirstApplies(self, rules)

\* Platform::allow_rule(&self, rules)
allow_rule(self, rules) ==
    IF Len(rules) = 0 THEN TRUE ELSE ForRules(self, rules, FALSE)

\* A call of allow_rule on the rules of a library.
AllowRule ==
    /\ lib.pc = "idle"
    /\ \E self \in Platforms, rules \in RuleLists :
          lib' = [pc |-> "done", self |-> self, rules |-> rules,
                  result |-> allow_rule(self, rules)]

\* The caller has the answer.
ReturnLib ==
    /\ lib.pc = "done"
    /\ lib' = IdleLib

NextLib ==
    \/ AllowRule
    \/ ReturnLib

----------------------------------------------------------------------------
(* DeviceCode::exchange and the caller's polling loop                      *)

\* The values of the "error" field the token endpoint documents, one it
\* does not, and a field that is no string.
NamedErrors ==
    {"authorization_pending", "authorization_declined", "bad_verification_code",
     "expired_token"}
Str(s) == [type |-> "string", val |-> s]
Num == [type |-> "number", val |-> "42"]
Absent == [type |-> "absent", val |-> ""]
ErrorFields == {Str(s) : s \in NamedErrors \cup {"slow_down"}} \cup {Num, Absent}

\* The bodies of an answer: no JSON at all, a MicrosoftAuth document with
\* its expires_in, or a JSON object with or without an error field.
NotJson == [json |-> FALSE, auth |-> FALSE, expires_in |-> 0, error |-> Absent]
AuthBody(d) == [json |-> TRUE, auth |-> TRUE, expires_in |-> d, error |-> Absent]
ErrorBody(e) == [json |-> TRUE, auth |-> FALSE, expires_in |-> 0, error |-> e]
Bodies ==
    {NotJson} \cup {AuthBody(d) : d \in Durations} \cup {ErrorBody(e) : e \in ErrorFields}

\* What the POST to the token endpoint may come to: send() fails, or an
\* answer with a status and a body.
Statuses == {200, 400}
TokenAnswers ==
    {[out |-> "sendfail", status |-> 0, body |-> NotJson]}
    \cup {[out |-> "ok", status |-> st, body |-> b] : st \in Statuses, b \in Bodies}

\* The polling intervals a DeviceCode may carry.
Intervals == {1, 2}

VARIABLE dev    \* the DeviceCode, the exchange in progress and the caller's loop

authVars == <<dev>>

NoAnswer == [out |-> "none", status |-> 0, body |-> NotJson]
NoExchange == [kind |-> "none", err |-> "", expires_in |-> 0, created_at |-> 0]

\* Ok(ExpiringData<MicrosoftAuth>) and Err(MicrosoftAuthError)
OkAuth(d, clock) == [kind |-> "Ok", err |-> "", expires_in |-> d, created_at |-> clock]
ErrAuth(e) == [kind |-> "Err", err |-> e, expires_in |-> 0, created_at |-> 0]

\* A DeviceCode with its interval, before the first exchange.
IdleDev(i) ==
    [pc |-> "idle", interval |-> i, at |-> 0, retAt |-> 0, polls |-> 0,
     answer |-> NoAnswer, result |-> NoExchange, before |-> NoExchange, slept |-> 0]

InitDev == \E i \in Intervals : dev = IdleDev(i)

\* StatusCode::is_success
is_success(status) == status >= 200 /\ status <= 299

\* Variant: a declined authorization is reported as pending.
MatchErrorPending(s) ==
    CASE s = "authorization_pending" -> "AuthorizationPending"
      [] s = "authorization_declined" -> "AuthorizationPending"
      [] s = "bad_verification_code" -> "BadVerificationCode"
      [] s = "expired_token" -> "ExpiredToken"
      [] OTHER -> "Others(Unknown error)"

\* The match on the error string.
MatchError(s) ==
    CASE s = "authorization_pending" -> "AuthorizationPending"
      [] s = "authorization_declined" -> "AuthorizationDeclined"
      [] s = "bad_verification_code" -> "BadVerificationCode"
      [] s = "expired_token" -> "ExpiredToken"
      [] OTHER -> "Others(Unknown error)"

\* What exchange returns for an outcome of the POST, at a clock reading.
ExchangeResult(a, clock) ==
    IF a.out = "sendfail" THEN ErrAuth("ReqwesetError")
    ELSE IF is_success(a.status)
    THEN IF a.body.json /\ a.body.auth
         THEN OkAuth(a.body.expires_in, clock)
         ELSE ErrAuth("ReqwesetError")
    ELSE IF ~a.body.json THEN ErrAuth("ReqwesetError")
    ELSE IF a.body.error.type = "absent"
         THEN ErrAuth("Others(Error while reading error field)")
    ELSE IF a.body.error.type # "string"
         THEN ErrAuth("Others(Error while convert error field to str)")
    ELSE ErrAuth(MatchError(a.body.error.val))

\* device_code.exchange(&client, client_id) is called: the POST is sent.
Exchange ==
    /\ dev.pc = "idle"
    /\ \E a \in TokenAnswers :
          dev' = [dev EXCEPT !.pc = "sent", !.at = now, !.answer = a, !.polls = @ + 1,
                             !.before = dev.result, !.result = NoExchange]
    /\ UNCHANGED now

\* The outcome of the POST is there and exchange returns.
ExchangeReturn ==
    /\ dev.pc = "sent"
    /\ dev' = [dev EXCEPT !.pc = "done", !.retAt = now,
                          !.result = ExchangeResult(dev.answer, now)]
    /\ UNCHANGED now

\* The caller's match on the result: AuthorizationPending sleeps for
\* interval and polls again, Ok leaves the loop, every other error panics.
CallerMatch ==
    /\ dev.pc = "done"
    /\ dev' = [dev EXCEPT !.pc = CASE dev.result.kind = "Ok" -> "break"
                                   [] dev.result.err = "AuthorizationPending" -> "sleep"
                                   [] OTHER -> "panic"]
    /\ UNCHANGED now

\* tokio::time::sleep(device_code.interval).await; continue
Sleep ==
    /\ dev.pc = "sleep"
    /\ now + dev.interval <= MaxClock
    /\ now' = now + dev.interval
    /\ dev' = [dev EXCEPT !.pc = "idle", !.slept = dev.interval]

\* Time passes while the POST is in flight.
TickDev ==
    /\ dev.pc = "sent"
    /\ now < MaxClock
    /\ now' = now + 1
    /\ UNCHANGED dev

NextDev ==
    \/ Exchange
    \/ ExchangeReturn
    \/ CallerMatch
    \/ Sleep
    \/ TickDev

----------------------------------------------------------------------------
(* Specifications                                                          *)

vars == <<fs, dir, call, last, started, now, ed, op, hist, codec, disk, sop, lastAt, cb, issued, lib, dev>>

\* The subsystem a specification is not about stays as constructed.
CacheParked ==
    /\ fs = [s \in Suffixes |-> NoFile]
    /\ dir = FALSE
    /\ call = [c \in Callers |-> IdleCall]
    /\ last = [s \in Suffixes |-> NoLast]
    /\ started = {}

ExpParked ==
    /\ now = 0
    /\ ed = From(Data("TestStruct2", 0, "old", "none", NoMsa), 0)
    /\ op = IdleOp
    /\ hist = [stampedAt |-> 0, rewound |-> FALSE, seen |-> {}]

CodecParked == codec = IdleCodec

StoreParked == InitStore

BuilderParked == InitBuilder

LibParked == InitLib

DevParked == dev = IdleDev(1)

Init == InitCache /\ ExpParked /\ CodecParked /\ StoreParked /\ BuilderParked /\ LibParked /\ DevParked

Next ==
    \/ \E c \in Callers : StartAlone(c) /\ UNCHANGED <<started, expVars, codec, storeVars, builderVars, metaVars, authVars>>
    \/ \E c \in Callers : Step(c) /\ UNCHANGED <<started, expVars, codec, storeVars, builderVars, metaVars, authVars>>
    \/ RemoveDirAll /\ UNCHANGED <<started, expVars, codec, storeVars, builderVars, metaVars, authVars>>

\* The cache used by one call at a time.
Spec == Init /\ [][Next]_vars

InitConc == InitCacheConc /\ ExpParked /\ CodecParked /\ StoreParked /\ BuilderParked /\ LibParked /\ DevParked

NextConc ==
    \/ \E c \in Callers : StartAny(c) /\ UNCHANGED <<expVars, codec, storeVars, builderVars, metaVars, authVars>>
    \/ \E c \in Callers : Step(c) /\ UNCHANGED <<started, expVars, codec, storeVars, builderVars, metaVars, authVars>>

\* The cache used by concurrent tasks.
SpecConc == InitConc /\ [][NextConc]_vars

InitExpiring == CacheParked /\ InitExp /\ CodecParked /\ StoreParked /\ BuilderParked /\ LibParked /\ DevParked

NextExpiring == NextExp /\ UNCHANGED <<cacheVars, codec, storeVars, builderVars, metaVars, authVars>>

\* The expiring container under a wall clock.
SpecExpiring == InitExpiring /\ [][NextExpiring]_vars

InitCodec == CacheParked /\ ExpParked /\ InitSha /\ StoreParked /\ BuilderParked /\ LibParked /\ DevParked

NextCodec == NextSha /\ UNCHANGED <<cacheVars, expVars, storeVars, builderVars, metaVars, authVars>>

\* The conversions between digests and hexadecimal strings.
SpecSha == InitCodec /\ [][NextCodec]_vars

InitStorage == CacheParked /\ ExpParked /\ CodecParked /\ InitStore /\ BuilderParked /\ LibParked /\ DevParked

NextStorage == NextStore /\ UNCHANGED <<cacheVars, expVars, codec, builderVars, metaVars, authVars>>

\* Values saved to and loaded from a store point.
SpecStore == InitStorage /\ [][NextStorage]_vars

InitBuild == InitCacheConc /\ ExpParked /\ CodecParked /\ StoreParked /\ InitBuilder /\ LibParked /\ DevParked

NextBuild == NextBuilder /\ UNCHANGED <<expVars, codec, storeVars, metaVars, authVars>>

\* The cache used through its builder, on a fresh store point.
SpecBuilder == InitBuild /\ [][NextBuild]_vars

InitRules == CacheParked /\ ExpParked /\ CodecParked /\ StoreParked /\ BuilderParked /\ InitLib /\ DevParked

NextRules == NextLib /\ UNCHANGED <<cacheVars, expVars, codec, storeVars, builderVars, authVars>>

\* The rules of a library applied to a platform.
SpecRules == InitRules /\ [][NextRules]_vars

InitDevice ==
    /\ CacheParked /\ ExpParked /\ CodecParked /\ StoreParked /\ BuilderParked /\ LibParked
    /\ InitDev

NextDevice ==
    NextDev /\ UNCHANGED <<cacheVars, ed, op, hist, codec, storeVars, builderVars, metaVars>>

\* The device-code exchange polled by its caller.
SpecDevice == InitDevice /\ [][NextDevice]_vars

----------------------------------------------------------------------------
(* Properties of the cache used by one call at a time (Spec)               *)

File(c) == fs[call[c].suffix]
Finished(c, name) == call[c].pc = "done" /\ call[c].op = name

\* The file a call found has the digest the call expects, computed with the
\* algorithm of the expected digest's variant.
PreMatches(c) ==
    call[c].pre.exists /\ DigestFor(call[c].sha, call[c].pre.bytes) = call[c].sha.bytes

PreMismatches(c) ==
    call[c].pre.exists /\ DigestFor(call[c].sha, call[c].pre.bytes) # call[c].sha.bytes

\* C1: a try_cache on an absent file whose GET is answered with payload P
\* issues exactly one GET, leaves P in the file and returns the
\* deserialization of P; the try_cache that follows it on the same path
\* issues no GET and returns the same value.
C1_MissThenHit ==
    \A c \in Callers :
        Finished(c, "try_cache") =>
            /\ (~call[c].pre.exists /\ Served(call[c].missResp)) =>
                  /\ call[c].gets = 1
                  /\ File(c) = FileOf(call[c].missResp.body)
                  /\ call[c].result = FromStr(call[c].missResp.body)
            /\ (call[c].prev.op = "try_cache" /\ call[c].prev.missed /\ call[c].prev.served) =>
                  /\ call[c].gets = 0
                  /\ call[c].result = call[c].prev.result

C1_Witness ==
    \E c \in Callers :
        /\ Finished(c, "try_cache")
        /\ call[c].prev.op = "try_cache" /\ call[c].prev.missed /\ call[c].prev.served
        /\ call[c].gets = 0
        /\ call[c].result.kind = "ok"
        /\ call[c].result = call[c].prev.result

\* C2: a check_cache that finds a deserializable file with a wrong digest and
\* whose re-fetch fails (the request cannot be completed, or the body cannot
\* be read) returns Ok with the value of the bytes that were on disk.
C2_StaleOnFailedRefetch ==
    \A c \in Callers :
        ( /\ Finished(c, "check_cache")
          /\ PreMismatches(c)
          /\ FromStr(call[c].pre.bytes).kind = "ok"
          /\ call[c].reResp.out \in {"sendfail", "bodyfail"} )
        => call[c].result = FromStr(call[c].pre.bytes)

\* C3: a check_cache that finds a file whose digest equals the expected one
\* issues no GET, leaves the file as it was and returns the deserialization
\* of its bytes.
C3_MatchNoFetch ==
    \A c \in Callers :
        (call[c].op = "check_cache" /\ PreMatches(c)) =>
            /\ call[c].gets = 0
            /\ File(c) = call[c].pre
            /\ call[c].pc = "done" => call[c].result = FromStr(call[c].pre.bytes)

C3_Witness ==
    \E c \in Callers :
        /\ Finished(c, "check_cache")
        /\ PreMatches(c)
        /\ call[c].sha.alg = "SHA256"
        /\ call[c].gets = 0
        /\ call[c].result.kind = "ok"

\* C4: a check_cache that finds a file with a wrong digest and whose GET
\* returns body B leaves exactly B in the file and returns the
\* deserialization of B.
C4_MismatchRefetched ==
    \A c \in Callers :
        (Finished(c, "check_cache") /\ PreMismatches(c) /\ call[c].reResp.out = "ok") =>
            /\ File(c) = FileOf(call[c].reResp.body)
            /\ call[c].result = FromStr(call[c].reResp.body)

C4_Witness ==
    \E c \in Callers :
        /\ Finished(c, "check_cache")
        /\ PreMismatches(c)
        /\ Served(call[c].reResp)
        /\ File(c) = FileOf(call[c].reResp.body)
        /\ File(c) # call[c].pre
        /\ call[c].result.kind = "ok"

\* C5: when no file exists and the GET of the miss branch fails (transport
\* failure or an HTTP error status), try_cache and check_cache return the
\* fetch error and no file exists afterwards.
MissFetchFailed(c) ==
    \/ call[c].missResp.out \in {"sendfail", "bodyfail"}
    \/ call[c].missResp.out = "ok" /\ call[c].missResp.status >= 400

C5_MissFetchErrorSurfaced ==
    \A c \in Callers :
        (call[c].pc = "done" /\ ~call[c].pre.exists /\ MissFetchFailed(c)) =>
            /\ call[c].result = ErrResult("NetworkFetch")
            /\ ~File(c).exists

\* C6: a try_cache that finds a file issues no GET and never changes the
\* file, whatever its content; content that is no serialized value gives a
\* deserialization error.
C6_PresenceTrusted ==
    \A c \in Callers :
        (call[c].op = "try_cache" /\ call[c].pre.exists) =>
            /\ call[c].gets = 0
            /\ File(c) = call[c].pre
            /\ call[c].pc = "done" =>
                  call[c].result = IF FromStr(call[c].pre.bytes).kind = "ok"
                                   THEN FromStr(call[c].pre.bytes)
                                   ELSE ErrResult("Deserialize")

C6_Witness ==
    \E c \in Callers :
        /\ Finished(c, "try_cache")
        /\ call[c].pre = FileOf(<<"{", "a">>)
        /\ File(c) = call[c].pre
        /\ call[c].result = ErrResult("Deserialize")

\* C7: after a re-fetch on a digest mismatch check_cache returns what is on
\* disk without comparing digests again: when the file still does not match
\* the expected digest the result is the deserialization of the file, Ok
\* included.
Refetched(c) == call[c].reResp.out = "ok" /\ call[c].writes >= 1

StillMismatches(c) ==
    File(c).exists /\ DigestFor(call[c].sha, File(c).bytes) # call[c].sha.bytes

C7_NoRecheckAfterRefetch ==
    \A c \in Callers :
        (Finished(c, "check_cache") /\ Refetched(c) /\ StillMismatches(c)) =>
            call[c].result = FromStr(File(c).bytes)

C7_Witness ==
    \E c \in Callers :
        /\ Finished(c, "check_cache")
        /\ Refetched(c)
        /\ StillMismatches(c)
        /\ call[c].result.kind = "ok"

----------------------------------------------------------------------------
(* Properties of the cache used by concurrent tasks (SpecConc)             *)

\* Both tasks called try_cache on the same path, absent when each started.
RacingMisses ==
    /\ \A c \in Callers : call[c].op = "try_cache" /\ ~call[c].pre.exists
    /\ call["t1"].suffix = call["t2"].suffix

\* Every GET the tasks issued was answered with the payload of value v.
AlwaysServed(v) ==
    \A c \in Callers :
        call[c].gets = 0 \/ call[c].missResp = Answer([status |-> 200, body |-> Serialize(v)])

\* C8: two concurrent try_cache calls on an absent path, the server always
\* returning P, both return the deserialization of P and leave exactly P.
C8_RacingCallsAgree ==
    \A v \in Values :
        ( /\ RacingMisses
          /\ \A c \in Callers : call[c].pc = "done"
          /\ AlwaysServed(v) )
        => /\ \A c \in Callers : call[c].result = OkResult(v)
           /\ fs[call["t1"].suffix] = FileOf(Serialize(v))

\* C9: nothing excludes the second fetch: a call whose existence test found
\* no file goes on to its own GET, and to its own write when the body
\* arrives, whatever the other call is doing.
C9_MissesNotDeduplicated ==
    \A c \in Callers :
        call[c].sawAbsent =>
            /\ call[c].pc = "send" \/ call[c].gets >= 1
            /\ (call[c].pc = "done" /\ call[c].missResp.out = "ok") => call[c].writes >= 1

C9_Witness ==
    /\ RacingMisses
    /\ \A c \in Callers :
          /\ call[c].pc = "done"
          /\ call[c].sawAbsent
          /\ call[c].gets = 1
          /\ call[c].writes = 1

----------------------------------------------------------------------------
(* Properties of the expiring container (SpecExpiring)                     *)

TryRefDone == op.pc = "done" /\ op.name = "try_ref"

\* C10 as claimed: try_ref calls the wrapped refresh exactly once when the
\* container is expired at the call and not at all when it is not; after a
\* successful try_ref on an expired container created_at is strictly later
\* than before the call.
C10_TryRefAdvances ==
    TryRefDone =>
        /\ op.expired = "true" => op.refreshes = 1
        /\ op.expired = "false" => op.refreshes = 0
        /\ (op.expired = "true" /\ op.result = "ok") => ed.created_at > op.before

\* C10 as amended: the refresh count as claimed; created_at is the clock
\* reading taken after the refresh, so unless the clock was set back during
\* the call it is not earlier than before, and strictly later when the
\* duration is positive.
C10_TryRefRefreshesOnce ==
    TryRefDone =>
        /\ op.expired = "true" => op.refreshes = 1
        /\ op.expired = "false" => op.refreshes = 0
        /\ (op.expired = "true" /\ op.result = "ok" /\ ~op.back) =>
              /\ ed.created_at >= op.before
              /\ op.ttl > 0 => ed.created_at > op.before

C10_Witness ==
    /\ TryRefDone
    /\ op.expired = "true"
    /\ op.result = "ok"
    /\ op.refreshes = 1
    /\ op.ttl > 0
    /\ ed.created_at > op.before

\* A call of ExpiringData::refresh, or of try_ref, has returned or panicked.
RefreshCallDone == op.pc = "done" /\ op.name \in {"refresh", "try_ref"}

\* C11: when the wrapped value's refresh returns an error, refresh and
\* try_ref return that error and created_at is what it was before the call.
C11_ErrorSurfacedUnstamped ==
    (RefreshCallDone /\ op.inner = "err")
        => (op.result = "err" /\ ed.created_at = op.before)

\* A try_ref whose wrapped refresh failed, at a clock reading that a reset
\* of created_at would have shown.
C11_Witness ==
    /\ RefreshCallDone
    /\ op.name = "try_ref"
    /\ op.inner = "err"
    /\ op.result = "err"
    /\ now # op.before

\* C12 as claimed: created_at is the clock reading of the construction or
\* of the last successful refresh, and no call ever leaves it earlier than
\* it was before the call.
C12_NeverBackdated ==
    /\ ed.created_at = hist.stampedAt
    /\ op.pc = "done" => ed.created_at >= op.before

\* C12 as amended: created_at is the clock reading of the construction or
\* of the last successful refresh; a call that is not a successful refresh
\* leaves it alone, and a call leaves it earlier than before only when the
\* wall clock itself was set back.
C12_CreatedAtIsLastStamp ==
    /\ ed.created_at = hist.stampedAt
    /\ (op.pc = "done" /\ op.result # "ok") => ed.created_at = op.before
    /\ (op.pc = "done" /\ ~hist.rewound) => ed.created_at >= op.before

\* A successful refresh of a MicrosoftAuth, whose data the refresh leaves as
\* it was, moved created_at forward to the clock.
C12_Witness ==
    /\ RefreshCallDone
    /\ op.result = "ok"
    /\ ed.data = op.snap.data
    /\ ed.data.kind = "MicrosoftAuth"
    /\ ed.created_at > op.before
    /\ ed.created_at = now

\* C13: after a refresh that failed, data and created_at, the nested msa
\* container included, are exactly as before the call.
C13_NoPartialUpdate ==
    (RefreshCallDone /\ op.result = "err") => ed = op.snap

\* C14: is_expired() returns true exactly when the clock at the call minus
\* created_at is at least get_duration(): with a duration above zero it is
\* false at the instant created_at was set and true from the duration on.
C14_ExpiredIffAged ==
    (op.pc = "done" /\ op.name = "is_expired")
        => /\ op.result = "true" <=> op.at - ed.created_at >= ed.data.duration
           /\ (ed.data.duration > 0 /\ op.at = ed.created_at) => op.result = "false"
           /\ op.at - ed.created_at >= ed.data.duration => op.result = "true"

\* is_expired() answers true on a container with a duration above zero that
\* answered false earlier, with no refresh in between.
C14_Witness ==
    /\ op.pc = "done"
    /\ op.name = "is_expired"
    /\ op.result = "true"
    /\ ed.data.duration > 0
    /\ "false" \in hist.seen

\* C15: on a type deriving NoRefresh every refresh, and every try_ref on an
\* expired container, fails the same way, never returns Ok, and leaves data
\* and created_at as they were.
C15_NoRefreshAlwaysFails ==
    (/\ ed.data.kind = "TestStruct1"
     /\ op.pc = "done"
     /\ op.name = "refresh" \/ (op.name = "try_ref" /\ op.expired = "true"))
        => (op.result = "panic" /\ op.refreshes = 1 /\ ed = op.snap)

\* A try_ref on an expired NoRefresh container has ended.
C15_Witness ==
    /\ ed.data.kind = "TestStruct1"
    /\ op.pc = "done"
    /\ op.name = "try_ref"
    /\ op.expired = "true"
    /\ op.result = "panic"
    /\ now > ed.created_at

\* C16: get_ref and is_expired leave data and created_at alone and never
\* call the wrapped refresh; get_ref returns the data whatever its age.
C16_ReadersAreFrameOnly ==
    (op.name \in {"get_ref", "is_expired"})
        => /\ ed = op.snap
           /\ op.refreshes = 0
           /\ op.pc = "done"
           /\ op.name = "get_ref" => op.result = "ok"

\* get_ref has returned the data of a container that is expired.
C16_Witness ==
    /\ op.pc = "done"
    /\ op.name = "get_ref"
    /\ op.result = "ok"
    /\ is_expired(ed, op.at) = "true"
    /\ ed.data.duration > 0
----------------------------------------------------------------------------
(* Properties of the hexadecimal codec (SpecSha)                           *)

LowerHexDigits == {"0", "1", "2", "3", "4", "5", "6", "7", "8", "9", "a", "b", "c", "d", "e", "f"}
HexDigits == LowerHexDigits \cup {"A", "B", "C", "D", "E", "F"}

\* The input is made of lowercase hexadecimal digits only.
LowerHex(s) == \A i \in 1..Len(s) : s[i] \in LowerHexDigits

\* The input is made of whole pairs of hexadecimal digits.
WholeHex(s) == Len(s) % 2 = 0 /\ \A i \in 1..Len(s) : s[i] \in HexDigits

\* try_from has been applied to the input.
Converted == codec.pc \in {"parsed", "printed", "verified"}

\* C17: a lowercase hexadecimal string of 40 or 64 characters converts to a
\* SHA, and converting that SHA back to a String gives the same string.
C17_RoundTrip ==
    (Converted /\ LowerHex(codec.input) /\ Len(codec.input) \in {2 * Sha1Len, 2 * Sha256Len})
        => /\ codec.res.kind = "ok"
           /\ codec.pc = "printed" => codec.str = codec.input

\* C18: try_from on a hexadecimal string that decodes to neither 20 nor 32
\* bytes returns an error: no SHA value, no abort.
C18_WrongLengthIsError ==
    (Converted /\ WholeHex(codec.input) /\ Len(codec.input) \notin {2 * Sha1Len, 2 * Sha256Len})
        => codec.res.kind = "err"

\* C19: try_from on a string with a pair that is not two hexadecimal
\* digits, a trailing single character included, returns an error: no SHA
\* value, no abort.
C19_MalformedIsError ==
    (Converted /\ ~WholeHex(codec.input)) => codec.res.kind = "err"

\* C20: try_from yields SHA1 exactly when 20 bytes are decoded and SHA256
\* exactly when 32 are; check_cache holds a file valid exactly when a SHA1
\* value is the SHA-1 of its bytes or a SHA256 value their SHA-256; and a
\* SHA1 value never equals a SHA256 value.
C20_VariantLengthAlgorithm ==
    Converted =>
        LET decode == decode_hex(codec.input)
            got == codec.res.kind = "ok"
            sha == codec.res.sha
        IN /\ (got /\ sha.alg = "SHA1") <=> (decode.kind = "ok" /\ Len(decode.bytes) = Sha1Len)
           /\ (got /\ sha.alg = "SHA256") <=> (decode.kind = "ok" /\ Len(decode.bytes) = Sha256Len)
           /\ got => /\ sha.bytes = decode.bytes
                     /\ sha.alg \in {"SHA1", "SHA256"}
                     /\ SHA1(sha.bytes) # SHA256(sha.bytes)
           /\ codec.pc = "verified" =>
                 (codec.valid <=>
                     \/ sha.alg = "SHA1" /\ sha.bytes = Sha1Bytes(codec.content)
                     \/ sha.alg = "SHA256" /\ sha.bytes = Sha256Bytes(codec.content))

\* A file was held valid against the SHA256 value made from the published
\* SHA-256 of its bytes.
C20_Witness ==
    /\ codec.pc = "verified"
    /\ codec.valid
    /\ codec.res.sha.alg = "SHA256"
    /\ Len(codec.res.sha.bytes) = Sha256Len
    /\ codec.input = Published(Sha256Bytes(codec.content))
----------------------------------------------------------------------------
(* Properties of the login chain and of the clock (SpecExpiring)           *)

\* C27: after a refresh of an ExpiringData<MicrosoftAuth> returned Ok the
\* container's data is the MicrosoftAuth the token endpoint returned during
\* that refresh.
C27_DataIsEndpointAnswer ==
    (RefreshCallDone /\ ed.data.kind = "MicrosoftAuth" /\ op.result = "ok" /\ op.refreshes = 1)
        => /\ ed.data.token = op.fetched.token
           /\ ed.data.duration = op.fetched.duration

\* The steps of Account::refresh in their order, with and without the
\* refresh of the Microsoft token.
ChainWithToken == <<"msa", "token", "xbl", "xsts", "mc", "profile">>
ChainNoToken == <<"msa", "xbl", "xsts", "mc", "profile">>

IsPrefix(s, full) == Len(s) <= Len(full) /\ s = SubSeq(full, 1, Len(s))

\* C28: Account::refresh issues its steps in the order Microsoft token
\* (refreshed only if its own container is expired), Xbox Live, Xbox
\* Security, Minecraft auth, profile; a step is issued only after the one
\* before it succeeded, the first failure ends the refresh with that error,
\* and Ok is returned only after all of them.
C28_ChainInOrder ==
    ed.data.kind = "Account" =>
        /\ IsPrefix(op.chain, ChainWithToken) \/ IsPrefix(op.chain, ChainNoToken)
        /\ (Len(op.chain) >= 2 /\ op.chain[2] = "token") => op.msaAge >= op.snap.data.msa.data.duration
        /\ (Len(op.chain) >= 2 /\ op.chain[2] = "xbl") =>
              (op.msaAge >= 0 /\ op.msaAge < op.snap.data.msa.data.duration)
        /\ (RefreshCallDone /\ op.result = "err") =>
              /\ op.inner = "err"
              /\ Len(op.chain) >= 2
        /\ (op.pc = "stamp" \/ (RefreshCallDone /\ op.result = "ok" /\ op.refreshes = 1)) =>
              op.chain \in {ChainWithToken, ChainNoToken}

\* An Account refresh that refreshed the expired Microsoft token first and
\* went through every step has returned Ok.
C28_Witness ==
    /\ ed.data.kind = "Account"
    /\ RefreshCallDone
    /\ op.result = "ok"
    /\ op.chain = ChainWithToken

\* C29: Account::refresh is all-or-nothing for mc_auth and profile: after a
\* failed refresh both are as before the call, after a successful one both
\* come from that run of the chain.
C29_McAuthProfileAllOrNothing ==
    (ed.data.kind = "Account" /\ op.name \in {"refresh", "try_ref"}) =>
        /\ op.pc # "done" =>
              (ed.data.token = op.snap.data.token /\ ed.data.duration = op.snap.data.duration
               /\ ed.data.profile = op.snap.data.profile) \/ op.pc = "stamp"
        /\ (op.pc = "done" /\ op.result # "ok") =>
              /\ ed.data.token = op.snap.data.token
              /\ ed.data.duration = op.snap.data.duration
              /\ ed.data.profile = op.snap.data.profile
        /\ (op.pc = "done" /\ op.result = "ok" /\ op.refreshes = 1) =>
              /\ ed.data.token = op.fetched.token
              /\ ed.data.duration = op.fetched.duration
              /\ ed.data.profile = "new"

\* An Account refresh failed at the profile, after the Minecraft auth was
\* fetched with another duration than the one held.
C29_Witness ==
    /\ ed.data.kind = "Account"
    /\ RefreshCallDone
    /\ op.result = "err"
    /\ op.chain[Len(op.chain)] = "profile"
    /\ op.fetched.duration # ed.data.duration
    /\ ed.data.token = "old"

\* C30: is_expired() returns a boolean for every clock and created_at, and
\* false when the clock is earlier than created_at; it never aborts.
C30_IsExpiredTotal ==
    (op.pc = "done" /\ op.name = "is_expired")
        => /\ op.result \in {"true", "false"}
           /\ op.at < ed.created_at => op.result = "false"
\* C31: whenever try_ref returns Ok the data is not expired at the moment of
\* the return: is_expired() on the container as try_ref leaves it, at the
\* clock of the return, is false, whatever duration the value reports.
C31_TryRefReturnsValid ==
    [][(op.pc # "done" /\ op'.pc = "done" /\ op'.name = "try_ref" /\ op'.result = "ok")
          => is_expired(ed', now') = "false"]_vars

----------------------------------------------------------------------------
(* Properties of Store, Save and Load (SpecStore)                          *)

IsLoad == sop.name \in {"Store::load", "Load::load"}
IsSave == sop.name \in {"Store::save", "Save::save"}

\* C21: a Store::load of a file whose last write was the Store::save of a
\* value v returns a value equal to v.
C21_StoreRoundTrip ==
    (sop.name = "Store::load" /\ lastAt[sop.path].set) => sop.out = Ok(lastAt[sop.path].val)

\* C22: after v.save(base), Load::load(base, v.get_suffix()) returns a value
\* equal to v.
C22_SaveLoadRoundTrip ==
    \A f \in Files :
        (sop.name = "Load::load" /\ lastAt[f].set /\ lastAt[f].suffix = sop.suffix)
            => sop.out = Ok(lastAt[f].val)

\* A D was saved and loaded back through its own suffix, which is not the
\* first one.
C22_Witness ==
    /\ sop.name = "Load::load"
    /\ sop.suffix = <<"456.txt">>
    /\ lastAt[sop.path].set
    /\ sop.out = Ok(ValueD("456"))
    /\ disk.file[<<"123.txt">>].exists

\* C23 as claimed: a save at suffix p leaves the file of every other suffix
\* q as it was.
C23_OtherSuffixesUntouched ==
    sop.name = "Save::save" =>
        \A q \in SaveSuffixes :
            q # sop.suffix => disk.file[Resolve(q)] = sop.before.file[Resolve(q)]

\* C23 as amended: a save leaves every other file of the store point as it
\* was, so every file last written by a Save::save loads back equal to the
\* value saved there last; two suffixes that differ only by "." components
\* name the same file.
C23_OtherFilesUntouched ==
    /\ IsSave => \A f \in Files : f # sop.path => disk.file[f] = sop.before.file[f]
    /\ \A f \in Files :
          (lastAt[f].set /\ lastAt[f].val.type = "D") =>
              /\ f = Resolve(lastAt[f].suffix)
              /\ ReadAs("D", disk, f) = Ok(lastAt[f].val)

\* A D was saved while the file of another D, saved before, exists.
C23_Witness ==
    /\ sop.name = "Save::save"
    /\ sop.path = <<"456.txt">>
    /\ lastAt[<<"123.txt">>].set
    /\ sop.before.file[<<"123.txt">>].exists
    /\ ReadAs("D", disk, <<"123.txt">>) = Ok(lastAt[<<"123.txt">>].val)

\* The documents to_string produces for the values of a type.
Documents(type) == {to_string(v) : v \in {w \in StoreValues \cup SaveValues : w.type = type}}

\* C24: a load returns NotFound when no file is at the path and Corrupt when
\* the file's content is not a document of the type; it changes no file.
C24_LoadErrors ==
    IsLoad =>
        /\ disk = sop.before
        /\ ~sop.before.file[sop.path].exists => sop.out = Err("NotFound")
        /\ (sop.before.file[sop.path].exists
            /\ sop.before.file[sop.path].bytes \notin Documents(sop.type)) => sop.out = Err("Corrupt")
----------------------------------------------------------------------------
(* Properties of the builder (SpecBuilder)                                 *)

\* The path s1/.../sn of the segments added in that order: the segments
\* from the last absolute one on, or all of them if none is absolute.
JoinedPath(log) ==
    LET abs == {i \in 1..Len(log) : is_absolute(log[i])}
    IN IF abs = {} THEN log
       ELSE SubSeq(log, CHOOSE i \in abs : \A j \in abs : j <= i, Len(log))

\* C25: build_try and build_check on a builder with no base panic, with no
\* GET issued and no directory or file created.
C25_NoBasePanics ==
    issued.via # "none" =>
        /\ issued.out = "panic" <=> cb.base = None
        /\ issued.out = "panic" =>
              /\ issued.fn = "none"
              /\ fs = issued.fs
              /\ dir = issued.dir
              /\ call[BuilderTask] = IdleCall

\* build_check panicked on a builder with a path and a url but no base,
\* on a store point that holds a file from an earlier call.
C25_Witness ==
    /\ issued.via = "build_check"
    /\ issued.out = "panic"
    /\ cb.base = None
    /\ cb.log # <<>>
    /\ cb.url # ""
    /\ \E s \in Suffixes : fs[s].exists

\* C26: build_try issues try_cache, and build_check issues check_cache with
\* the digest given, on the builder's base, the path of the segments added
\* in their order and the builder's url; the awaited call starts as the
\* direct call does.
C26_BuilderIssuesEntryPoint ==
    issued.out \in {"future", "awaited"} =>
        /\ issued.base = cb.base
        /\ issued.suffix = JoinedPath(cb.log)
        /\ issued.url = cb.url
        /\ issued.via = "build_try" => (issued.fn = "try_cache" /\ issued.sha = NoSha)
        /\ issued.via = "build_check" => (issued.fn = "check_cache" /\ issued.sha \in ShaArgs)
        /\ (issued.out = "awaited" /\ call[BuilderTask].pc # "idle") =>
              /\ call[BuilderTask].op = issued.fn
              /\ <<call[BuilderTask].suffix>> = issued.suffix
              /\ call[BuilderTask].sha = issued.sha
        /\ (issued.out = "awaited" /\ call[BuilderTask].pc = "mkdir") =>
              call[BuilderTask] =
                  [IdleCall EXCEPT !.op = issued.fn, !.pc = "mkdir", !.suffix = issued.suffix[1],
                                   !.sha = issued.sha, !.phase = "miss",
                                   !.pre = fs[issued.suffix[1]], !.prev = last[issued.suffix[1]]]

\* The build_check of cache_test: base, url and one segment; the call it
\* issued has returned a value.
C26_Witness ==
    /\ issued.via = "build_check"
    /\ issued.out = "awaited"
    /\ cb.log = <<"test.txt">>
    /\ cb.url # ""
    /\ call[BuilderTask].pc = "done"
    /\ call[BuilderTask].op = "check_cache"
    /\ call[BuilderTask].result.kind = "ok"

\* C32: every directory and file a call issued through the builder creates
\* or writes lies under the root of the store point, whatever segments
\* were added (absolute ones and ".." included).
C32_WritesUnderRoot ==
    \A p \in issued.made : Under(issued.base, p)

\* The re-fetch of a call did not deliver the resource: the request could
\* not be completed, the body could not be read, or the status is an error.
RefetchFailed(c) == call[c].reResp.out # "none" /\ ~Served(call[c].reResp)

\* C33: when the re-fetch after a digest mismatch does not deliver the
\* resource, the file is after the check_cache call what it was before it.
C33_FailedRefetchKeepsFile ==
    \A c \in Callers :
        (Finished(c, "check_cache") /\ PreMismatches(c) /\ RefetchFailed(c)) =>
            File(c) = call[c].pre

\* A call made while the server returns a valid payload: every GET it
\* issued was answered 200 with a document.
ServerValid(c) ==
    /\ call[c].missResp.out \in {"none", "ok"}
    /\ call[c].missResp.out = "ok" => call[c].missResp.status = 200

\* C34: a try_cache that follows a try_cache on the same path that returned
\* an error, and is made while the server returns a valid payload P, returns
\* the deserialization of P.
C34_NoPoisonedPath ==
    \A c \in Callers :
        ( /\ Finished(c, "try_cache")
          /\ call[c].prev.op = "try_cache"
          /\ call[c].prev.result.kind = "err"
          /\ ServerValid(c) )
        => \E v \in Values : call[c].result = OkResult(v)

\* The body the miss branch fetched has the digest the call expects.
FetchedMatches(c) ==
    /\ call[c].missResp.out = "ok"
    /\ DigestFor(call[c].sha, call[c].missResp.body) = call[c].sha.bytes

\* C35: a try_cache call issues at most one GET and a check_cache call at
\* most two, one in the miss branch and one after a digest mismatch; a
\* check_cache on a missing file whose fetched content has the expected
\* digest issues exactly one.
C35_GetsPerCall ==
    \A c \in Callers :
        /\ call[c].op = "try_cache" => call[c].gets <= 1
        /\ call[c].op = "check_cache" =>
              /\ call[c].gets <= 2
              /\ call[c].gets = (IF call[c].missResp.out = "none" THEN 0 ELSE 1)
                                 + (IF call[c].reResp.out = "none" THEN 0 ELSE 1)
              /\ call[c].missResp.out # "none" => ~call[c].pre.exists
        /\ (Finished(c, "check_cache") /\ ~call[c].pre.exists /\ FetchedMatches(c)) =>
              call[c].gets = 1

\* A check_cache on a missing file fetched a document with the expected
\* digest and returned it after one GET.
C35_Witness ==
    \E c \in Callers :
        /\ Finished(c, "check_cache")
        /\ ~call[c].pre.exists
        /\ FetchedMatches(c)
        /\ call[c].gets = 1
        /\ call[c].result.kind = "ok"

----------------------------------------------------------------------------
(* Properties of Platform::allow_rule (SpecRules)                          *)

AllowApplies(k) == lib.rules[k].action = "Allow" /\ Applies(lib.self, lib.rules[k])
DisallowApplies(k) == lib.rules[k].action = "Disallow" /\ Applies(lib.self, lib.rules[k])

\* C36: allow_rule answers true for an empty rule list; for any other list
\* it answers true exactly when some Allow rule applies to the platform (the
\* rule names no platform, or names this one) and no Disallow rule applies,
\* wherever in the list the rules stand.
C36_AllowRule ==
    lib.pc = "done" =>
        lib.result = IF lib.rules = <<>> THEN TRUE
                     ELSE /\ \E k \in 1..Len(lib.rules) : AllowApplies(k)
                          /\ \A k \in 1..Len(lib.rules) : ~DisallowApplies(k)

\* An Allow rule that applies stands before a Disallow rule that applies,
\* and the answer is false.
C36_Witness ==
    /\ lib.pc = "done"
    /\ ~lib.result
    /\ \E j, k \in 1..Len(lib.rules) : j < k /\ AllowApplies(j) /\ DisallowApplies(k)

----------------------------------------------------------------------------
(* Properties of the builder's state (SpecBuilder)                         *)

\* C37: after any sequence of add, url and base_on the buffer is the added
\* segments joined in their order, the url the argument of the last url()
\* ("" if there was none) and the base the argument of the last base_on();
\* build_try and build_check, and the call they issue, leave the builder as
\* it was.
C37_BuilderState ==
    /\ cb.buf = JoinedPath(cb.log)
    /\ cb.url = cb.lastUrl
    /\ cb.base = cb.lastBase
    /\ issued.out # "none" => cb = issued.of

\* A builder given a second base, a url and two segments was built on and
\* the call awaited.
C37_Witness ==
    /\ issued.out = "awaited"
    /\ cb.lastBase = "test_other"
    /\ cb.lastUrl # ""
    /\ Len(cb.log) = 2
    /\ cb = issued.of

----------------------------------------------------------------------------
(* Properties of DeviceCode::exchange (SpecDevice)                         *)

Exchanged == dev.pc = "done"
Answered == dev.answer.out = "ok"
ErrorString == dev.answer.body.error.type = "string"

\* The error the claim names for a value of the error field.
NamedFor(s) ==
    CASE s = "authorization_pending" -> "AuthorizationPending"
      [] s = "authorization_declined" -> "AuthorizationDeclined"
      [] s = "bad_verification_code" -> "BadVerificationCode"
      [] s = "expired_token" -> "ExpiredToken"
      [] OTHER -> "Others(Unknown error)"

\* The caller polls again only after AuthorizationPending, and then after
\* interval.
PollsAfterPending ==
    /\ dev.polls > 1 =>
          /\ dev.before = ErrAuth("AuthorizationPending")
          /\ dev.slept = dev.interval
          /\ dev.at >= dev.interval
    /\ dev.pc = "sleep" => dev.result = ErrAuth("AuthorizationPending")
    /\ dev.pc \in {"break", "panic"} => dev.result # ErrAuth("AuthorizationPending")

\* C38 as stated: exchange returns Ok only on a success status, with
\* created_at read during the call, and otherwise an error chosen by the
\* error field of the response; the caller polls again only after
\* AuthorizationPending.
C38_ErrorFromField ==
    /\ Exchanged =>
          /\ dev.result.kind = "Ok" =>
                /\ Answered /\ is_success(dev.answer.status)
                /\ dev.result.created_at = dev.retAt
                /\ dev.result.created_at >= dev.at
          /\ dev.result.kind # "Ok" =>
                /\ Answered /\ ErrorString
                /\ dev.result = ErrAuth(NamedFor(dev.answer.body.error.val))
    /\ PollsAfterPending

\* C38, amended: Ok only on a success status whose body is a MicrosoftAuth,
\* with created_at read when the answer is converted; a request that cannot
\* be sent, a success answer that is no MicrosoftAuth and an error answer
\* that is no JSON give ReqwesetError; an error answer gives the error named
\* by its error field, Others when the field is absent, is no string or
\* has any other value; the caller polls again only after
\* AuthorizationPending.
C38_ExchangeOutcome ==
    /\ Exchanged =>
          /\ dev.result.kind \in {"Ok", "Err"}
          /\ dev.result.kind = "Ok" <=>
                (Answered /\ is_success(dev.answer.status) /\ dev.answer.body.auth)
          /\ dev.result.kind = "Ok" =>
                /\ dev.result.expires_in = dev.answer.body.expires_in
                /\ dev.result.created_at = dev.retAt
                /\ dev.result.created_at >= dev.at
          /\ dev.result.err = "ReqwesetError" <=>
                \/ ~Answered
                \/ is_success(dev.answer.status) /\ ~dev.answer.body.auth
                \/ ~is_success(dev.answer.status) /\ ~dev.answer.body.json
          /\ (Answered /\ ~is_success(dev.answer.status) /\ dev.answer.body.json) =>
                dev.result =
                    CASE dev.answer.body.error.type = "absent" ->
                            ErrAuth("Others(Error while reading error field)")
                      [] dev.answer.body.error.type = "number" ->
                            ErrAuth("Others(Error while convert error field to str)")
                      [] OTHER -> ErrAuth(NamedFor(dev.answer.body.error.val))
    /\ PollsAfterPending

\* The second exchange of a caller that slept after AuthorizationPending
\* was answered 400 with authorization_declined and returned
\* AuthorizationDeclined.
C38_Witness ==
    /\ Exchanged
    /\ dev.polls = 2
    /\ dev.before = ErrAuth("AuthorizationPending")
    /\ dev.answer.status = 400
    /\ dev.answer.body.error = Str("authorization_declined")
    /\ dev.result = ErrAuth("AuthorizationDeclined")
====
